---- MODULE Spec2Model ----
(***************************************************************************)
(* Model of protonfixes' util.py: the once() marker-file decorator, the    *)
(* winetricks log checks (_checkinstalled / checkinstalled), the           *)
(* protontricks() install-and-verify sequence and its installer command,   *)
(* the sys.argv helpers append_argument() and replace_command(), the       *)
(* environment and cpu-topology helpers, and patch_libcuda().              *)
(*                                                                         *)
(* Python strings are modelled as sequences of one-character strings, so   *)
(* that split(), strip(), replace() and the regular expressions of         *)
(* re.findall() and re.sub() are computed character by character as the    *)
(* code computes them.                                                     *)
(*                                                                         *)
(* protontricks() and patch_libcuda() block in subprocesses and read and   *)
(* write files that launches share; they are modelled step by step, one    *)
(* step for each access to a shared file and each blocking call, for two   *)
(* launches that share one prefix, so that one launch may run between any  *)
(* two steps of the other.                                                 *)
(***************************************************************************)
EXTENDS Integers, Sequences, FiniteSets, TLC

\* ------------------------------------------------------------------ bounds
MaxLogLines == 2        \* lines kept in the two winetricks logs together
MaxInstallerLines == 1  \* lines one installer run appends to winetricks.log
MaxCalls == 3           \* invocations of one once-wrapped operation
MaxStrLen == 3          \* length of verbs and log lines in SpecCheck
MaxCkLines == 2         \* lines of the log in SpecCheck
MaxCpus == 4            \* logical cpus of the machine, core counts asked for
MaxEnvCalls == 3        \* environment helper calls in one launch
MaxScopedCalls == 2     \* invocations of one of the operations named alike
MaxVerbLen == 3         \* length of the verbs a command is built for
MaxChunks == 3          \* pieces the bytes of a libcuda.so are made of
MaxArgs == 4            \* arguments of sys.argv

\* --------------------------------------------------------- string helpers
RECURSIVE SeqsUpTo(_, _)
\* All sequences over S of length at most n.
SeqsUpTo(S, n) ==
    IF n = 0 THEN {<<>>}
    ELSE LET shorter == SeqsUpTo(S, n - 1)
         IN  shorter \cup {Append(s, c) : s \in shorter, c \in S}

\* The ASCII characters str.strip() removes: space, \t, \n, \r, \f, and the
\* control characters \x0b, \x1c, \x1d, \x1e and \x1f (a line's trailing
\* newline is one of them; lines are kept here without it).
Whitespace ==
    {" ", "\t", "\n", "\r", "\f", "", "", "", "", ""}

RECURSIVE Split(_, _)
\* str.split(sep) for a one-character separator: the pieces between the
\* separators, empty pieces included.
Split(s, sep) ==
    IF \A i \in 1..Len(s) : s[i] # sep
    THEN <<s>>
    ELSE LET i == CHOOSE k \in 1..Len(s) :
                     s[k] = sep /\ \A j \in 1..(k - 1) : s[j] # sep
         IN  <<SubSeq(s, 1, i - 1)>> \o Split(SubSeq(s, i + 1, Len(s)), sep)

RECURSIVE LStrip(_)
LStrip(s) ==
    IF s # <<>> /\ Head(s) \in Whitespace THEN LStrip(Tail(s)) ELSE s

RECURSIVE RStrip(_)
RStrip(s) ==
    IF s # <<>> /\ s[Len(s)] \in Whitespace
    THEN RStrip(SubSeq(s, 1, Len(s) - 1)) ELSE s

\* str.strip()
Strip(s) == RStrip(LStrip(s))

\* s[i:].startswith(p), 1-based
MatchesAt(s, p, i) ==
    /\ i + Len(p) - 1 <= Len(s)
    /\ \A j \in 1..Len(p) : s[i + j - 1] = p[j]

\* `sub in s`
Contains(s, sub) == \E i \in 1..(Len(s) + 1) : MatchesAt(s, sub, i)

RECURSIVE Replace(_, _, _)
\* str.replace(old, new): every non-overlapping occurrence, left to right
\* (old is never empty here).
Replace(s, old, new) ==
    IF s = <<>> THEN <<>>
    ELSE IF MatchesAt(s, old, 1)
         THEN new \o Replace(SubSeq(s, Len(old) + 1, Len(s)), old, new)
         ELSE <<Head(s)>> \o Replace(Tail(s), old, new)

\* ----------------------------------------------------- regular expressions
\* The part of Python's re syntax that is modelled: a pattern is a row of
\* items, each one character (itself, or '.' for any character but a
\* newline) followed by an optional repeat '*', '+' or '?', itself followed
\* by an optional '?' (lazy) or '+' (possessive).  A lone parenthesis is
\* known to be an error; groups, sets, alternation, anchors, braces and
\* backslashes are not modelled and are kept out of every pattern here.
ReRepeats == {"*", "+", "?"}

\* str.lower() of one character
Lower(c) ==
    LET upper == <<"A", "B", "C", "D", "E", "F", "G", "H", "I", "J", "K", "L",
                   "M", "N", "O", "P", "Q", "R", "S", "T", "U", "V", "W", "X",
                   "Y", "Z">>
        lower == <<"a", "b", "c", "d", "e", "f", "g", "h", "i", "j", "k", "l",
                   "m", "n", "o", "p", "q", "r", "s", "t", "u", "v", "w", "x",
                   "y", "z">>
    IN  IF \E i \in 1..26 : upper[i] = c
        THEN lower[CHOOSE i \in 1..26 : upper[i] = c]
        ELSE c

\* The first item of a pattern that begins with an atom, and what follows.
ReItem(p) ==
    LET q == IF Len(p) >= 2 /\ p[2] \in ReRepeats THEN p[2] ELSE ""
        m == IF q # "" /\ Len(p) >= 3 /\ p[3] \in {"?", "+"} THEN p[3] ELSE ""
        n == 1 + (IF q # "" THEN 1 ELSE 0) + (IF m # "" THEN 1 ELSE 0)
    IN  [atom |-> p[1], repeat |-> q, mode |-> m,
         rest |-> SubSeq(p, n + 1, Len(p))]

RECURSIVE ReRepeatError(_)
\* 'nothing to repeat' and 'multiple repeat': a repeat character where an
\* atom has to stand.
ReRepeatError(p) ==
    IF p = <<>> THEN FALSE
    ELSE IF p[1] \in ReRepeats THEN TRUE
    ELSE ReRepeatError(ReItem(p).rest)

\* re.compile(pattern) raises re.error.
ReError(pattern) ==
    LET has(c) == \E i \in 1..Len(pattern) : pattern[i] = c
    IN  \/ has("(") # has(")")
        \/ ReRepeatError(pattern)

\* One pattern character against one character of the text.
ReCharMatches(atom, c, ignorecase) ==
    IF atom = "." THEN c # "\n"
    ELSE IF ignorecase THEN Lower(atom) = Lower(c)
    ELSE atom = c

RECURSIVE ReRun(_, _, _)
\* How many characters at the start of the text one atom matches in a row.
ReRun(atom, t, ignorecase) ==
    IF t # <<>> /\ ReCharMatches(atom, Head(t), ignorecase)
    THEN 1 + ReRun(atom, Tail(t), ignorecase)
    ELSE 0

RECURSIVE ReMatchLens(_, _, _)
RECURSIVE ReTry(_, _, _, _)
\* The lengths of the matches of a pattern at the start of the text, in the
\* order the backtracking matcher finds them: a greedy repeat tries the
\* longest run first, a lazy one the shortest, a possessive one only the
\* longest.
ReMatchLens(p, t, ignorecase) ==
    IF p = <<>> THEN <<0>>
    ELSE LET it  == ReItem(p)
             run == ReRun(it.atom, t, ignorecase)
             lo  == IF it.repeat \in {"*", "?"} THEN 0 ELSE 1
             hi  == IF it.repeat \in {"*", "+"} THEN run
                    ELSE IF run >= 1 THEN 1 ELSE 0
             ks  == IF hi < lo THEN <<>>
                    ELSE IF it.mode = "+" THEN <<hi>>
                    ELSE IF it.mode = "?"
                         THEN [i \in 1..(hi - lo + 1) |-> lo + i - 1]
                    ELSE [i \in 1..(hi - lo + 1) |-> hi - i + 1]
         IN  ReTry(ks, it.rest, t, ignorecase)

ReTry(ks, rest, t, ignorecase) ==
    IF ks = <<>> THEN <<>>
    ELSE LET k    == Head(ks)
             more == ReMatchLens(rest, SubSeq(t, k + 1, Len(t)), ignorecase)
         IN  [i \in 1..Len(more) |-> k + more[i]]
             \o ReTry(Tail(ks), rest, t, ignorecase)

\* re.findall(r'^' + pattern, text) is non-empty: the pattern matches at
\* the start of the text (an empty match counts).
ReFindallAtStart(pattern, text) == ReMatchLens(pattern, text, FALSE) # <<>>

RECURSIVE ReSub(_, _, _, _, _)
\* re.sub(pattern, repl, s): every match, left to right, is replaced; after
\* an empty match the next match at the same place has to be longer.
ReSub(pattern, repl, s, ignorecase, advance) ==
    LET lens == ReMatchLens(pattern, s, ignorecase)
        ok   == SelectSeq(lens, LAMBDA l : ~advance \/ l > 0)
    IN  IF ok # <<>>
        THEN IF ok[1] = 0
             THEN repl \o (IF s = <<>> THEN <<>>
                           ELSE ReSub(pattern, repl, s, ignorecase, TRUE))
             ELSE repl \o ReSub(pattern, repl, SubSeq(s, ok[1] + 1, Len(s)),
                                ignorecase, FALSE)
        ELSE IF s = <<>> THEN <<>>
        ELSE <<Head(s)>> \o ReSub(pattern, repl, Tail(s), ignorecase, FALSE)

\* ------------------------------------------------------------- log files
\* A log file: missing (open() raises OSError) or a sequence of lines.
NoFile == [exists |-> FALSE, lines |-> <<>>]
FileOf(ls) == [exists |-> TRUE, lines |-> ls]

\* open(mode='a') + write(line + '\n'): creates the file when missing.
AppendLines(file, ls) == [exists |-> TRUE, lines |-> file.lines \o ls]

RECURSIVE WtIsSet(_, _, _, _)
\* The loop of _checkinstalled over readlines() for a 'verb=param' verb:
\* every line that begins with wt_verb overwrites wt_is_set.
WtIsSet(lines, wt_verb, wt_verb_param, wt_is_set) ==
    IF lines = <<>> THEN wt_is_set
    ELSE LET xline == Strip(Head(lines))
             now   == IF ReFindallAtStart(wt_verb, xline)
                      THEN xline = wt_verb \o wt_verb_param
                      ELSE wt_is_set
         IN  WtIsSet(Tail(lines), wt_verb, wt_verb_param, now)

\* A bug to tell C9 from: only the last line of the log is looked at.
VerbInLines_last(verb, lines) ==
    lines # <<>> /\ Strip(lines[Len(lines)]) = verb

\* `verb in reversed([x.strip() for x in tricklog.readlines()])`
VerbInLines(verb, lines) ==
    \E i \in 1..Len(lines) : Strip(lines[i]) = verb

\* _checkinstalled(verb, logfile) raises re.error: the pattern of a
\* 'verb=param' verb is compiled when the first line of the log is tested,
\* and only OSError is caught.
U_checkinstalled_raises(verb, file) ==
    LET parts == Split(verb, "=")
    IN  /\ Len(parts) > 1
        /\ file.exists /\ file.lines # <<>>
        /\ ReError(parts[1] \o <<"=">>)

\* _checkinstalled(verb, logfile) on the content of that log file, when it
\* returns; a file that cannot be opened (OSError) gives False.
U_checkinstalled(verb, file) ==
    LET parts == Split(verb, "=")
    IN  IF Len(parts) > 1
        THEN IF file.exists
             THEN WtIsSet(file.lines, parts[1] \o <<"=">>, parts[2], FALSE)
             ELSE FALSE
        ELSE file.exists /\ VerbInLines(verb, file.lines)

S_gui == <<"g", "u", "i">>

\* checkinstalled(verb), when it returns, neither log written between its
\* two reads: forced log first, then the regular log.
checkinstalled(verb, forced, regular) ==
    IF verb = S_gui THEN FALSE
    ELSE IF U_checkinstalled(verb, forced) THEN TRUE
    ELSE U_checkinstalled(verb, regular)

\* ------------------------------------------------------------ protontricks
VARIABLES reglog, forcedlog, argv, call, succeeded, inflight, \* protontricks
          markerDir, markers, history, invocation,  \* once
          ckVerb, ckFile, ckResult,                 \* _checkinstalled alone
          osenv, sessenv, touched, envCall, envCalls, \* environment helpers
          cpus, smt, userTopo, ignoredSetting,        \* the machine, the user
          procs,                                      \* concurrent wrappers
          cmdVerb, cmdLocal, cmdBundled, cmd,         \* installer command
          cudaIn, cudaFile, cudaOut                   \* patch_libcuda

varsPT == <<reglog, forcedlog, argv, call, succeeded, inflight>>
varsOnce == <<markerDir, markers, history, invocation>>
varsCk == <<ckVerb, ckFile, ckResult>>
varsEnv == <<osenv, sessenv, touched, envCall, envCalls, cpus, smt, userTopo,
             ignoredSetting>>
varsRace == <<procs>>
varsCmd == <<cmdVerb, cmdLocal, cmdBundled, cmd>>
varsCuda == <<cudaIn, cudaFile, cudaOut>>
vars ==
    <<varsPT, varsOnce, varsCk, varsEnv, varsRace, varsCmd, varsCuda>>

\* The launches (processes) that share the prefix.  Each has a sys.argv of
\* its own and runs its fix on one thread, so it is inside one call at a
\* time.
Launches == {1, 2}

\* Verbs the fix scripts ask for: the 'gui' pseudo-verb, a plain verb, two
\* verbs in one string, and two settings of one 'key=value' verb (as
\* 'sound=alsa' in 70420.py).
S_dx == <<"d", "x">>
S_s_a == <<"s", "=", "a">>
S_s_o == <<"s", "=", "o">>
Verbs == {S_gui, S_dx, S_dx \o <<" ", "q">>, S_s_a, S_s_o}

S_run == <<"r", "u", "n">>
S_waitforexitandrun ==
    <<"w", "a", "i", "t", "f", "o", "r", "e", "x", "i", "t", "a", "n", "d">> \o S_run
S_proton == <<"/", "p">>
S_game == <<"/", "g">>

\* Command lines Proton starts the fixes with.
ArgvInit == { <<S_proton, S_waitforexitandrun, S_game>>,
              <<S_proton, S_run, S_game>>,
              <<S_proton, S_waitforexitandrun, <<"/">> \o S_run \o S_game>> }

\* The installer process records the verbs it installed in winetricks.log;
\* a run that records nothing leaves the file as it is.
InstallerWrites(regular, written) ==
    IF written = <<>> THEN regular ELSE AppendLines(regular, written)

\* A bug to tell C11 from: the forced log is not written.
U_forceinstalled_nothing(verb, forced) == forced

\* _forceinstalled(verb): one line, the verb, appended to the forced log.
U_forceinstalled(verb, forced) == AppendLines(forced, <<verb>>)

\* A bug to tell C5 from: the probe's failure is not reported.
check_internet_always(connects) == TRUE

\* check_internet(): True when the UDP connect succeeds, False on
\* TimeoutError / OSError.
check_internet(connects) == connects

\* The loop over sys.argv at lines 270-273.
RewriteArgv(args) ==
    [idx \in 1..Len(args) |->
        IF ~Contains(args[idx], S_waitforexitandrun)
        THEN Replace(args[idx], S_run, S_waitforexitandrun)
        ELSE args[idx]]

\* A bug to tell C7 from: only a negative status (death by signal) counts.
InstallerFailed_negative(retc) == retc < 0

\* `retc != 0`
InstallerFailed(retc) == retc # 0

\* A bug to tell C6 from: the verb is forced whatever the check returned.
AfterInstall_always(installed) == [result |-> "none", pc |-> "_forceinstalled"]

\* Lines 288-293, once checkinstalled(verb) has returned: True is returned
\* at once when the verb was found, and after _forceinstalled(verb)
\* otherwise.
AfterInstall(installed) ==
    IF installed THEN [result |-> "True", pc |-> "idle"]
    ELSE [result |-> "none", pc |-> "_forceinstalled"]

\* A bug to tell C15 from: the hung processes are swept before the
\* installer is started.
InstallSteps_sweepfirst ==
    <<"wineserver -w", "_killhanging", "winetricks", "process.wait",
      "returncode">>

\* Lines 276-282, in order: subprocess.call of `wineserver -w` (which
\* returns when the wineserver has exited), subprocess.Popen of the
\* installer, process.wait(), _killhanging(), and the read of
\* process.returncode.
InstallSteps ==
    <<"wineserver -w", "winetricks", "process.wait", "_killhanging",
      "returncode">>

\* What the outside world does during one call: whether the network probe
\* connects, whether the wineserver and the installer binaries can be
\* launched (subprocess raises OSError otherwise), the installer's exit
\* status and the lines it records in winetricks.log.  What a call never
\* gets to observe is left at its default, as in the record of a call
\* that got to observe none of them.
Unobserved == [connects |-> FALSE, wineserver |-> TRUE, winetricks |-> TRUE,
               retc |-> 0, written |-> <<>>]

\* protontricks is taken in steps, one for each time it reads or writes a
\* log that other launches write too, and one for each call it blocks in.
\* A step gives what protontricks returns or raises ("none" while the call
\* goes on), the external steps of the call so far, and where the call is
\* next: "idle" once it is over, else what it is about to do or blocked in.

\* Lines 236-276, after the log check has failed: the network probe, the
\* loop over sys.argv and the start of `wineserver -w`.
protontricks_install(args, ext) ==
    IF ~check_internet(ext.connects)
    THEN [result |-> "False", events |-> <<"check_internet">>, argv |-> args,
          pc |-> "idle"]
    ELSE IF ~ext.wineserver
    THEN [result |-> "OSError", events |-> <<"check_internet">>,
          argv |-> RewriteArgv(args), pc |-> "idle"]
    ELSE [result |-> "none", events |-> <<"check_internet">>,
          argv |-> RewriteArgv(args), pc |-> "subprocess.call"]

\* Line 235, from the call to the first read of checkinstalled(verb), that
\* of the forced log (lines 186-191); 'gui' is reported not installed
\* without a read, and the call goes on.
protontricks_call(verb, forced, args, ext) ==
    IF verb = S_gui THEN protontricks_install(args, ext)
    ELSE IF U_checkinstalled_raises(verb, forced)
    THEN [result |-> "re.error", events |-> <<>>, argv |-> args, pc |-> "idle"]
    ELSE IF U_checkinstalled(verb, forced)
    THEN [result |-> "False", events |-> <<>>, argv |-> args, pc |-> "idle"]
    ELSE [result |-> "none", events |-> <<>>, argv |-> args,
          pc |-> "checkinstalled"]

\* Line 235, the second read of checkinstalled(verb), that of
\* winetricks.log (line 192), and what follows it up to line 276.
protontricks_checked(verb, regular, args, ext) ==
    IF U_checkinstalled_raises(verb, regular)
    THEN [result |-> "re.error", events |-> <<>>, argv |-> args, pc |-> "idle"]
    ELSE IF U_checkinstalled(verb, regular)
    THEN [result |-> "False", events |-> <<>>, argv |-> args, pc |-> "idle"]
    ELSE protontricks_install(args, ext)

\* Lines 276-278, from the return of subprocess.call to process.wait():
\* the installer is started, or Popen raises OSError.
protontricks_popen(ext) ==
    IF ~ext.winetricks
    THEN [result |-> "OSError",
          events |-> <<"check_internet">> \o SubSeq(InstallSteps, 1, 1),
          pc |-> "idle"]
    ELSE [result |-> "none",
          events |-> <<"check_internet">> \o SubSeq(InstallSteps, 1, 2),
          pc |-> "process.wait"]

\* Lines 278-288, from the return of process.wait() to the first read of
\* checkinstalled(verb), that of the forced log as it is by then.
protontricks_exit(verb, forced, ext) ==
    LET ran     == <<"check_internet">> \o InstallSteps
        checked == ran \o <<"checkinstalled">>
        after(installed) ==
            [result |-> AfterInstall(installed).result, events |-> checked,
             pc |-> AfterInstall(installed).pc]
    IN  IF InstallerFailed(ext.retc)
        THEN [result |-> "False", events |-> ran, pc |-> "idle"]
        ELSE IF verb = S_gui
        THEN after(FALSE)
        ELSE IF U_checkinstalled_raises(verb, forced)
        THEN [result |-> "re.error", events |-> checked, pc |-> "idle"]
        ELSE IF U_checkinstalled(verb, forced)
        THEN after(TRUE)
        ELSE [result |-> "none", events |-> checked,
              pc |-> "checkinstalled again"]

\* Line 288, the second read of checkinstalled(verb), that of
\* winetricks.log as it is by then.
protontricks_rechecked(verb, regular) ==
    LET checked == <<"check_internet">> \o InstallSteps \o <<"checkinstalled">>
        after   == AfterInstall(U_checkinstalled(verb, regular))
    IN  IF U_checkinstalled_raises(verb, regular)
        THEN [result |-> "re.error", events |-> checked, pc |-> "idle"]
        ELSE [result |-> after.result, events |-> checked, pc |-> after.pc]

\* Lines 290-293: the verb is appended to the forced log as it is by then
\* and True is returned.
protontricks_force(verb, forced) ==
    [result |-> "True",
     events |-> <<"check_internet">> \o InstallSteps
                    \o <<"checkinstalled", "_forceinstalled">>,
     forced |-> U_forceinstalled(verb, forced), pc |-> "idle"]

\* protontricks(verb) from call to return, nothing but its installer
\* writing the logs meanwhile: what it returns (or that it raises), the
\* external steps it took in order, and the logs and sys.argv it leaves.
protontricks(verb, forced, regular, args, ext) ==
    LET a    == protontricks_call(verb, forced, args, ext)
        b    == IF a.pc = "checkinstalled"
                THEN protontricks_checked(verb, regular, args, ext) ELSE a
        c    == protontricks_popen(ext)
        reg2 == InstallerWrites(regular, ext.written)
        d    == protontricks_exit(verb, forced, ext)
        e    == IF d.pc = "checkinstalled again"
                THEN protontricks_rechecked(verb, reg2) ELSE d
        f    == protontricks_force(verb, forced)
    IN  IF b.pc = "idle"
        THEN [result |-> b.result, events |-> b.events,
              forced |-> forced, regular |-> regular, argv |-> b.argv]
        ELSE IF c.pc = "idle"
        THEN [result |-> c.result, events |-> c.events,
              forced |-> forced, regular |-> regular, argv |-> b.argv]
        ELSE IF e.pc = "idle"
        THEN [result |-> e.result, events |-> e.events,
              forced |-> forced, regular |-> reg2, argv |-> b.argv]
        ELSE [result |-> f.result, events |-> f.events,
              forced |-> f.forced, regular |-> reg2, argv |-> b.argv]

\* replace_command(orig, repl): re.sub with re.IGNORECASE on every
\* argument; it returns whether any argument changed, and the re.error of
\* a pattern that does not compile leaves it at the first argument.
replace_command(args, orig, repl) ==
    LET replaced == [idx \in 1..Len(args) |->
                        ReSub(orig, repl, args[idx], TRUE, FALSE)]
    IN  IF args # <<>> /\ ReError(orig)
        THEN [argv |-> args, result |-> "re.error"]
        ELSE [argv |-> replaced,
              result |-> IF \E idx \in 1..Len(args) : replaced[idx] # args[idx]
                         THEN "True" ELSE "False"]

\* append_argument(argument)
append_argument(args, argument) == Append(args, argument)

\* The last step taken: the launch, the step (a step of protontricks, a
\* line recorded by its installer, append_argument, replace_command), the
\* verb, what the outside world did to the call so far, what was returned
\* or raised ("none" while protontricks goes on), and the external steps
\* of the call so far.
NoCall == [launch |-> 0, step |-> "none", verb |-> <<>>,
           ext |-> Unobserved, result |-> "none", events |-> <<>>]

\* A launch that is not inside protontricks, and one that is inside it for
\* a verb, with the lines its installer has recorded so far.
NotInstalling == [pc |-> "idle", verb |-> <<>>, written |-> <<>>]
Blocked(pc, verb, written) ==
    IF pc = "idle" THEN NotInstalling
    ELSE [pc |-> pc, verb |-> verb, written |-> written]

\* What the outside world has done to a call that got to start its
\* installer, or is about to.
Running(written) == [connects |-> TRUE, wineserver |-> TRUE,
                     winetricks |-> TRUE, retc |-> 0, written |-> written]

\* A prefix before any fix ran: winetricks.log missing or empty, no forced
\* log; the launches that are started have their command lines;
\* `succeeded` keeps the verbs for which a call has returned True.
InitPT(started) ==
    /\ reglog \in {NoFile, FileOf(<<>>)}
    /\ forcedlog = NoFile
    /\ argv \in [started -> ArgvInit]
    /\ call = NoCall
    /\ succeeded = {}
    /\ inflight = [p \in Launches |-> NotInstalling]

\* What a step of a launch leaves alone.
LaunchFrame ==
    UNCHANGED <<varsOnce, varsCk, varsEnv, varsRace, varsCmd, varsCuda>>

\* The ways the outside world can meet a step of the log check at line
\* 235, which gets to the network probe or not.
CallExternals(probes) ==
    IF probes
    THEN {Unobserved, Running(<<>>),
          [Running(<<>>) EXCEPT !.wineserver = FALSE]}
    ELSE {Unobserved}

\* The fix script of launch p calls util.protontricks(verb) for one of the
\* verbs it asks for: the forced log is read, and for 'gui', which is not
\* looked up, the call goes on to where it blocks in subprocess.call.
Protontricks(p, verbs) ==
    /\ inflight[p].pc = "idle"
    /\ \E verb \in verbs :
        \E ext \in CallExternals(verb = S_gui) :
          \E r \in {protontricks_call(verb, forcedlog, argv[p], ext)} :
            /\ argv' = [argv EXCEPT ![p] = r.argv]
            /\ inflight' = [inflight EXCEPT ![p] = Blocked(r.pc, verb, <<>>)]
            /\ call' = [launch |-> p, step |-> "protontricks",
                        verb |-> verb, ext |-> ext, result |-> r.result,
                        events |-> r.events]
    /\ UNCHANGED <<reglog, forcedlog, succeeded>>
    /\ LaunchFrame

\* Launch p, which did not find the verb in the forced log, reads
\* winetricks.log: the call returns, or goes on to where it blocks in
\* subprocess.call of `wineserver -w`.
CheckInstalled(p) ==
    /\ inflight[p].pc = "checkinstalled"
    /\ \E verb \in {inflight[p].verb} :
        \E ext \in CallExternals(~U_checkinstalled_raises(verb, reglog)
                                   /\ ~U_checkinstalled(verb, reglog)) :
          \E r \in {protontricks_checked(verb, reglog, argv[p], ext)} :
            /\ argv' = [argv EXCEPT ![p] = r.argv]
            /\ inflight' = [inflight EXCEPT ![p] = Blocked(r.pc, verb, <<>>)]
            /\ call' = [launch |-> p, step |-> "checkinstalled",
                        verb |-> verb, ext |-> ext, result |-> r.result,
                        events |-> r.events]
    /\ UNCHANGED <<reglog, forcedlog, succeeded>>
    /\ LaunchFrame

\* The wineserver has exited: subprocess.call returns in launch p and the
\* installer is started.
SubprocessCallReturns(p) ==
    /\ inflight[p].pc = "subprocess.call"
    /\ \E ext \in {Running(<<>>), [Running(<<>>) EXCEPT !.winetricks = FALSE]} :
        \E r \in {protontricks_popen(ext)} :
          /\ inflight' = [inflight EXCEPT ![p] =
                            Blocked(r.pc, inflight[p].verb, <<>>)]
          /\ call' = [launch |-> p, step |-> "subprocess.call",
                      verb |-> inflight[p].verb,
                      ext |-> ext, result |-> r.result, events |-> r.events]
    /\ UNCHANGED <<reglog, forcedlog, argv, succeeded>>
    /\ LaunchFrame

\* The installer that launch p waits for records a verb in winetricks.log.
InstallerRecords(p) ==
    /\ inflight[p].pc = "process.wait"
    /\ Len(inflight[p].written) < MaxInstallerLines
    /\ Len(reglog.lines) + Len(forcedlog.lines) < MaxLogLines
    /\ \E line \in {S_dx, S_s_a, S_s_o} :
        LET written == Append(inflight[p].written, line)
        IN  /\ reglog' = InstallerWrites(reglog, <<line>>)
            /\ inflight' = [inflight EXCEPT ![p].written = written]
            /\ call' = [launch |-> p, step |-> "installer",
                        verb |-> inflight[p].verb,
                        ext |-> Running(written), result |-> "none",
                        events |-> protontricks_popen(Running(written)).events]
    /\ UNCHANGED <<forcedlog, argv, succeeded>>
    /\ LaunchFrame

\* The installer has exited: process.wait() returns in launch p, the hung
\* processes are swept and the exit status is looked at; after a status of
\* zero the forced log is read.
ProcessWaitReturns(p) ==
    /\ inflight[p].pc = "process.wait"
    /\ \E retc \in {0, 1} :
        LET ext == [Running(inflight[p].written) EXCEPT !.retc = retc]
            verb == inflight[p].verb
        IN  \E r \in {protontricks_exit(verb, forcedlog, ext)} :
              /\ inflight' = [inflight EXCEPT ![p] =
                                Blocked(r.pc, verb, inflight[p].written)]
              /\ call' = [launch |-> p, step |-> "process.wait",
                          verb |-> verb, ext |-> ext,
                          result |-> r.result, events |-> r.events]
              /\ succeeded' = IF r.result = "True"
                              THEN succeeded \cup {verb} ELSE succeeded
    /\ UNCHANGED <<reglog, forcedlog, argv>>
    /\ LaunchFrame

\* Launch p, whose installer exited 0 and which did not find the verb in
\* the forced log, reads winetricks.log.
CheckInstalledAgain(p) ==
    /\ inflight[p].pc = "checkinstalled again"
    /\ \E r \in {protontricks_rechecked(inflight[p].verb, reglog)} :
        /\ inflight' = [inflight EXCEPT ![p] =
                          Blocked(r.pc, inflight[p].verb, inflight[p].written)]
        /\ call' = [launch |-> p, step |-> "checkinstalled again",
                    verb |-> inflight[p].verb,
                    ext |-> Running(inflight[p].written),
                    result |-> r.result, events |-> r.events]
        /\ succeeded' = IF r.result = "True"
                        THEN succeeded \cup {inflight[p].verb} ELSE succeeded
    /\ UNCHANGED <<reglog, forcedlog, argv>>
    /\ LaunchFrame

\* Launch p, whose check after the installation did not find the verb,
\* appends it to the forced log and returns True.
ForceInstalled(p) ==
    /\ inflight[p].pc = "_forceinstalled"
    /\ Len(reglog.lines) + Len(forcedlog.lines) < MaxLogLines
    /\ \E r \in {protontricks_force(inflight[p].verb, forcedlog)} :
        /\ forcedlog' = r.forced
        /\ inflight' = [inflight EXCEPT ![p] = NotInstalling]
        /\ call' = [launch |-> p, step |-> "_forceinstalled",
                    verb |-> inflight[p].verb,
                    ext |-> Running(inflight[p].written),
                    result |-> r.result, events |-> r.events]
        /\ succeeded' = succeeded \cup {inflight[p].verb}
    /\ UNCHANGED <<reglog, argv>>
    /\ LaunchFrame

\* The fix script of launch p calls util.append_argument('-useembedded').
AppendArgument(p) ==
    /\ inflight[p].pc = "idle"
    /\ Len(argv[p]) < MaxArgs
    /\ argv' = [argv EXCEPT ![p] =
                  append_argument(argv[p], <<"-", "u", "s", "e">>)]
    /\ call' = [NoCall EXCEPT !.launch = p, !.step = "append_argument",
                              !.result = "None"]
    /\ UNCHANGED <<reglog, forcedlog, succeeded, inflight>>
    /\ LaunchFrame

\* The fix script of launch p calls util.replace_command(orig, repl), here
\* to replace '/G', which re.IGNORECASE lets match '/g', by '/h'.
ReplaceCommand(p) ==
    /\ inflight[p].pc = "idle"
    /\ \E pair \in {<< <<"/", "G">>, <<"/", "h">> >>} :
        \E r \in {replace_command(argv[p], pair[1], pair[2])} :
          /\ argv' = [argv EXCEPT ![p] = r.argv]
          /\ call' = [NoCall EXCEPT !.launch = p, !.step = "replace_command",
                                    !.result = r.result]
    /\ UNCHANGED <<reglog, forcedlog, succeeded, inflight>>
    /\ LaunchFrame

\* ------------------------------------------------------------------- once
\* Two decorated operations: one with the default policy (as
\* disable_uplay_overlay) and one decorated with once(retry=True).
Ops == { [module |-> "util", name |-> "disable_uplay_overlay", retry |-> FALSE],
         [module |-> "fix", name |-> "install", retry |-> TRUE] }

\* f'{func.__module__}.{func.__name__}'
func_id(op) == <<op.module, op.name>>

\* How a run of the decorated function ends: it returns, raises an
\* exception derived from Exception (one whose truth value is True, as
\* that of ValueError or OSError, or one of a class whose __bool__ or
\* __len__ makes it false), or raises one that is only a BaseException
\* (SystemExit, KeyboardInterrupt, GeneratorExit).
Outcomes == {"returned", "Exception", "falsy Exception", "BaseException"}

\* `except Exception as exc`
CaughtByExceptException(outcome) ==
    outcome \in {"Exception", "falsy Exception"}

\* A bug to tell C1 from: the exception is raised again whatever the policy.
RetryRaises_always(retry) == TRUE

\* A bug to tell C2 from: the policy is not looked at.
RetryRaises_never(retry) == FALSE

\* `if retry: raise exc`
RetryRaises(retry) == retry

\* `if exception: raise exception` / `return`, after the marker is written:
\* the kept exception is raised when it is true, dropped when it is false.
AfterMarker(exception) ==
    IF exception # "falsy Exception" THEN exception ELSE "returned"

\* wrapper(*args, **kwargs) of once(): run on the marker directory and the
\* set of marker files, with the way func ends when it is called.  It gives
\* how func ended ("not run" when it was not called), how the wrapper ended,
\* the steps taken in order and the marker files left.
wrapper(op, dirExists, marks, outcome) ==
    LET mk == IF dirExists THEN <<>> ELSE <<"mkdir">>
        marked == marks \cup {func_id(op)}
    IN  IF func_id(op) \in marks
        THEN [func |-> "not run", result |-> "returned", steps |-> mk,
              markers |-> marks]
        ELSE IF outcome = "returned"
        THEN [func |-> outcome, result |-> "returned",
              steps |-> mk \o <<"func", "marker">>, markers |-> marked]
        ELSE IF ~CaughtByExceptException(outcome) \/ RetryRaises(op.retry)
        THEN [func |-> outcome, result |-> outcome,
              steps |-> mk \o <<"func", "raise">>, markers |-> marks]
        ELSE LET end == AfterMarker(outcome)
             IN  [func |-> outcome, result |-> end,
                  steps |-> mk \o <<"func", "marker">>
                           \o (IF end = "returned" THEN <<>> ELSE <<"raise">>),
                  markers |-> marked]

\* The last invocation: the marker key and policy of its operation, how
\* func and the wrapper ended, and the steps taken.
NoInvocation == [func_id |-> <<>>, retry |-> FALSE, func |-> "not run",
                 result |-> "none", steps |-> <<>>]

\* A fresh prefix: no drive_c/protonfixes/run directory, no marker.
InitOnce ==
    /\ markerDir = FALSE
    /\ markers = {}
    /\ history = [op \in Ops |-> <<>>]
    /\ invocation = NoInvocation

\* A fix (in this launch or a later one) calls a decorated operation.
Invoke ==
    \E op \in Ops, outcome \in Outcomes :
      \E r \in {wrapper(op, markerDir, markers, outcome)} :
            /\ Len(history[op]) < MaxCalls
            \* func is not called: how it would have ended plays no part
            /\ r.func = "not run" => outcome = "returned"
            /\ markerDir' = TRUE
            /\ markers' = r.markers
            /\ history' = [history EXCEPT ![op] =
                              Append(@, [func |-> r.func, result |-> r.result])]
            /\ invocation' = [func_id |-> func_id(op), retry |-> op.retry,
                              func |-> r.func, result |-> r.result,
                              steps |-> r.steps]

\* -------------------------------------------------- _checkinstalled alone
\* Log lines are written over a letter, '=', a space and a tab; verbs over
\* the letter, '=' and either a space or the regular-expression characters
\* '.' and '*'.
InitCk ==
    /\ ckVerb \in SeqsUpTo({"a", "=", " "}, MaxStrLen)
                    \cup SeqsUpTo({"a", "=", ".", "*"}, MaxStrLen)
    /\ ckFile \in {NoFile} \cup
          {FileOf(ls) :
             ls \in SeqsUpTo(SeqsUpTo({"a", "=", " ", "\t"}, MaxStrLen),
                             MaxCkLines)}
    /\ ckResult = "none"

CheckInstalledOnce ==
    /\ ckResult = "none"
    /\ ckResult' = IF U_checkinstalled_raises(ckVerb, ckFile) THEN "re.error"
                   ELSE IF U_checkinstalled(ckVerb, ckFile) THEN "True"
                   ELSE "False"
    /\ UNCHANGED <<ckVerb, ckFile>>

\* ------------------------------------------------------------ environment
\* One environment table (os.environ, g_session.env): each variable is
\* unset or holds a string; an empty string is a value.
Unset == [set |-> FALSE, value |-> <<>>]
Val(v) == [set |-> TRUE, value |-> v]

EnvVars == {"WINE_CPU_TOPOLOGY", "WINEDLLOVERRIDES", "WINEESYNC",
            "PULSE_LATENCY_MSEC"}

\* The two tables the helpers act on.
Tables(os, session) == [os |-> os, session |-> session]

\* set_environment(envvar, value)
set_environment(e, envvar, value) ==
    Tables([e.os EXCEPT ![envvar] = Val(value)],
           [e.session EXCEPT ![envvar] = Val(value)])

\* del_environment(envvar)
del_environment(e, envvar) ==
    Tables(IF e.os[envvar].set
           THEN [e.os EXCEPT ![envvar] = Unset] ELSE e.os,
           IF e.session[envvar].set
           THEN [e.session EXCEPT ![envvar] = Unset] ELSE e.session)

\* protonmain.append_to_env_str(env, variable, append_str, separator), the
\* function of Proton's main script that winedll_override calls: it sets
\* the variable, or appends separator and string to its value.
append_to_env_str(env, variable, append_str, separator) ==
    IF ~env[variable].set
    THEN [env EXCEPT ![variable] = Val(append_str)]
    ELSE [env EXCEPT ![variable] = Val(@.value \o separator \o append_str)]

\* winedll_override(dll, dtype): the setting f'{dll}={dtype}' goes to
\* g_session.env alone.
winedll_override(e, dll, dtype) ==
    Tables(e.os,
           append_to_env_str(e.session, "WINEDLLOVERRIDES",
                             dll \o <<"=">> \o dtype, <<";">>))

\* disable_nvapi()
disable_nvapi(e) ==
    LET nvapi == <<"n", "v", "a", "p", "i">>
        nvcuda == <<"n", "v", "c", "u", "d", "a">>
        nvcuvid == <<"n", "v", "c", "u", "v", "i", "d">>
        nvencodeapi == <<"n", "v", "e", "n", "c", "o", "d", "e", "a", "p", "i">>
        e1 == winedll_override(e, nvapi, <<>>)
        e2 == winedll_override(e1, nvapi \o <<"6", "4">>, <<>>)
        e3 == winedll_override(e2, nvcuda, <<>>)
        e4 == winedll_override(e3, nvcuvid, <<>>)
        e5 == winedll_override(e4, nvencodeapi, <<>>)
    IN  winedll_override(e5, nvencodeapi \o <<"6", "4">>, <<>>)

\* disable_esync()
disable_esync(e) == set_environment(e, "WINEESYNC", <<>>)

RECURSIVE str(_)
\* str(n) of a natural number: its decimal digits.
str(n) ==
    LET digits == <<"0", "1", "2", "3", "4", "5", "6", "7", "8", "9">>
    IN  IF n < 10 THEN <<digits[n + 1]>>
        ELSE str(n \div 10) \o <<digits[(n % 10) + 1]>>

RECURSIVE Join(_, _)
\* sep.join(parts)
Join(parts, sep) ==
    IF parts = <<>> THEN <<>>
    ELSE IF Len(parts) = 1 THEN parts[1]
    ELSE parts[1] \o sep \o Join(Tail(parts), sep)

\* f'{core_count}:{",".join(map(str, range(core_count)))}'
cpu_topology(core_count) ==
    str(core_count) \o <<":">>
        \o Join([i \in 1..core_count |-> str(i - 1)], <<",">>)

\* is_smt_enabled(): the content of /sys/devices/system/cpu/smt/active is
\* '1'; a file that cannot be read gives False.
is_smt_enabled(active) == active = "1"

\* get_cpu_count(): os.cpu_count(), 0 when it gives None (here 0).
get_cpu_count(os_cpu_count) == IF os_cpu_count <= 0 THEN 0 ELSE os_cpu_count

\* set_cpu_topology(core_count, ignore_user_setting): what it returns and
\* the tables it leaves.
set_cpu_topology(e, core_count, ignore_user_setting) ==
    LET user_topo == e.os["WINE_CPU_TOPOLOGY"]
    IN  IF user_topo.set /\ user_topo.value # <<>> /\ ~ignore_user_setting
        THEN [result |-> "False", env |-> e]
        ELSE IF core_count <= 0
        THEN [result |-> "False", env |-> e]
        ELSE [result |-> "True",
              env |-> set_environment(e, "WINE_CPU_TOPOLOGY",
                                      cpu_topology(core_count))]

\* set_cpu_topology_nosmt(core_limit, ignore_user_setting, threads_per_core)
\* on a machine with SMT status `active` and os.cpu_count() n.
set_cpu_topology_nosmt(e, core_limit, ignore, threads_per_core, active, n) ==
    IF ~is_smt_enabled(active)
    THEN [result |-> "False", env |-> e]
    ELSE LET max(a, b) == IF a >= b THEN a ELSE b
             min(a, b) == IF a <= b THEN a ELSE b
             divided == get_cpu_count(n) \div threads_per_core
             cpu_cores == max(divided, min(divided, core_limit))
         IN  set_cpu_topology(e, cpu_cores, ignore)

\* set_cpu_topology_limit(core_limit, ignore_user_setting)
set_cpu_topology_limit(e, core_limit, ignore_user_setting, os_cpu_count) ==
    IF core_limit >= get_cpu_count(os_cpu_count)
    THEN [result |-> "False", env |-> e]
    ELSE set_cpu_topology(e, core_limit, ignore_user_setting)

\* The last helper call: its name, its core count or limit, its flags and
\* what it returned ("None" for the helpers that return nothing).
NoEnvCall == [name |-> "none", count |-> 0, ignore |-> FALSE, tpc |-> 0,
              result |-> "none"]
EnvCallOf(name, count, ignore, tpc, result) ==
    [name |-> name, count |-> count, ignore |-> ignore, tpc |-> tpc,
     result |-> result]

\* The launch begins with g_session.env a copy of os.environ.  The user
\* may have exported WINE_CPU_TOPOLOGY (possibly empty) and
\* WINEDLLOVERRIDES; the machine has up to MaxCpus logical cpus (0: the
\* count cannot be read) and SMT on, off or unreadable.  `ignoredSetting`
\* keeps whether a helper was called with ignore_user_setting=True.
\* The user's topology here is '2:0,1', the user's override 'd=b'.
InitEnv ==
    /\ userTopo \in {Unset, Val(<<>>), Val(<<"2", ":", "0", ",", "1">>)}
    /\ \E dlls \in {Unset, Val(<<"d", "=", "b">>)} :
          osenv = [v \in EnvVars |->
                      IF v = "WINE_CPU_TOPOLOGY" THEN userTopo
                      ELSE IF v = "WINEDLLOVERRIDES" THEN dlls ELSE Unset]
    /\ sessenv = osenv
    /\ touched = {}
    /\ envCall = NoEnvCall
    /\ envCalls = 0
    /\ cpus \in 0..MaxCpus
    /\ smt \in {"1", "0", "OSError"}
    /\ ignoredSetting = FALSE

\* The tables a helper leaves become the state; the variables whose entry
\* it changed in either table are remembered.
HelperDone(e, c) ==
    /\ envCalls < MaxEnvCalls
    /\ osenv' = e.os
    /\ sessenv' = e.session
    /\ touched' = touched \cup
          {v \in EnvVars : e.os[v] # osenv[v] \/ e.session[v] # sessenv[v]}
    /\ envCall' = c
    /\ envCalls' = envCalls + 1
    /\ ignoredSetting' = (ignoredSetting \/ c.ignore)
    /\ UNCHANGED <<cpus, smt, userTopo>>
    /\ UNCHANGED <<varsPT, varsOnce, varsCk, varsRace, varsCmd,
                   varsCuda>>

Now == Tables(osenv, sessenv)

\* Fix scripts set and delete variables of their own; WINE_CPU_TOPOLOGY is
\* reached through the topology helpers.  The values set are '60' (as in
\* 70420.py) and '' (as in disable_esync).
SetEnvironment ==
    \E envvar \in EnvVars \ {"WINE_CPU_TOPOLOGY"},
       value \in {<<>>, <<"6", "0">>} :
        HelperDone(set_environment(Now, envvar, value),
                   EnvCallOf("set_environment", 0, FALSE, 0, "None"))

DelEnvironment ==
    \E envvar \in EnvVars \ {"WINE_CPU_TOPOLOGY"} :
        HelperDone(del_environment(Now, envvar),
                   EnvCallOf("del_environment", 0, FALSE, 0, "None"))

\* winedll_override('ddraw', 'n') as in 287310.py, and with dtype ''.
WinedllOverride ==
    \E dll \in {<<"d", "d", "r", "a", "w">>}, dtype \in {<<"n">>, <<>>} :
        HelperDone(winedll_override(Now, dll, dtype),
                   EnvCallOf("winedll_override", 0, FALSE, 0, "None"))

DisableNvapi ==
    HelperDone(disable_nvapi(Now),
               EnvCallOf("disable_nvapi", 0, FALSE, 0, "None"))

DisableEsync ==
    HelperDone(disable_esync(Now),
               EnvCallOf("disable_esync", 0, FALSE, 0, "None"))

SetCpuTopology ==
    \E core_count \in 0..MaxCpus, ignore \in BOOLEAN :
      \E r \in {set_cpu_topology(Now, core_count, ignore)} :
        HelperDone(r.env, EnvCallOf("set_cpu_topology", core_count, ignore,
                                    0, r.result))

SetCpuTopologyNosmt ==
    \E core_limit \in 0..MaxCpus, ignore \in BOOLEAN, tpc \in {1, 2} :
      \E r \in {set_cpu_topology_nosmt(Now, core_limit, ignore, tpc,
                                       smt, cpus)} :
        HelperDone(r.env, EnvCallOf("set_cpu_topology_nosmt", core_limit,
                                    ignore, tpc, r.result))

SetCpuTopologyLimit ==
    \E core_limit \in 0..MaxCpus, ignore \in BOOLEAN :
      \E r \in {set_cpu_topology_limit(Now, core_limit, ignore, cpus)} :
        HelperDone(r.env, EnvCallOf("set_cpu_topology_limit", core_limit,
                                    ignore, 0, r.result))

\* ------------------------------------------- once, operations by scope
\* Decorated functions all named `setup`: two static methods of two
\* classes of one fix module, a function of that module, and a function
\* of another module.  __qualname__ tells them all apart; func_id is made
\* of __module__ and __name__.
ScopedOps ==
    { [module |-> "fix1", qualname |-> "A.setup", name |-> "setup",
       retry |-> FALSE],
      [module |-> "fix1", qualname |-> "B.setup", name |-> "setup",
       retry |-> FALSE],
      [module |-> "fix1", qualname |-> "setup", name |-> "setup",
       retry |-> TRUE],
      [module |-> "fix2", qualname |-> "setup", name |-> "setup",
       retry |-> FALSE] }

InitScoped ==
    /\ markerDir = FALSE
    /\ markers = {}
    /\ history = [op \in ScopedOps |-> <<>>]
    /\ invocation = NoInvocation

\* A fix (in this launch or a later one) calls one of these operations.
InvokeScoped ==
    \E op \in ScopedOps, outcome \in Outcomes :
      \E r \in {wrapper(op, markerDir, markers, outcome)} :
            /\ Len(history[op]) < MaxScopedCalls
            /\ r.func = "not run" => outcome = "returned"
            /\ markerDir' = TRUE
            /\ markers' = r.markers
            /\ history' = [history EXCEPT ![op] =
                              Append(@, [func |-> r.func, result |-> r.result])]
            /\ invocation' = [func_id |-> func_id(op), retry |-> op.retry,
                              func |-> r.func, result |-> r.result,
                              steps |-> r.steps]

\* ------------------------------------------------- once, two processes
\* Two processes (two launches sharing a prefix) each inside one
\* invocation of wrapper(); every file-system call is one step.
Procs == {1, 2}

InitRace ==
    /\ procs \in [Procs -> {[pc |-> "directory.exists", op |-> op,
                              exception |-> "none", result |-> "none"] :
                                op \in Ops}]
    /\ markerDir = FALSE
    /\ markers = {}
    /\ history = [op \in Ops |-> <<>>]
    /\ invocation = NoInvocation

\* The wrapper ends in process p: it returns or an exception leaves it.
Ends(p, result) == [procs EXCEPT ![p].pc = "ended", ![p].result = result]

\* What a step of a process leaves alone.
RaceFrame ==
    UNCHANGED <<varsPT, varsCk, varsEnv, varsCmd, varsCuda, history,
                invocation>>

\* `if not directory.exists():`
DirectoryExists(p) ==
    /\ procs[p].pc = "directory.exists"
    /\ procs' = [procs EXCEPT ![p].pc =
                    IF markerDir THEN "file.exists" ELSE "directory.mkdir"]
    /\ UNCHANGED <<markerDir, markers>>
    /\ RaceFrame

\* `directory.mkdir(parents=True)`: exist_ok is False, so a directory that
\* exists by now makes mkdir raise FileExistsError, which leaves wrapper().
DirectoryMkdir(p) ==
    /\ procs[p].pc = "directory.mkdir"
    /\ IF markerDir
       THEN /\ procs' = Ends(p, "FileExistsError")
            /\ UNCHANGED markerDir
       ELSE /\ procs' = [procs EXCEPT ![p].pc = "file.exists"]
            /\ markerDir' = TRUE
    /\ UNCHANGED markers
    /\ RaceFrame

\* `if file.exists(): return`
FileExists(p) ==
    /\ procs[p].pc = "file.exists"
    /\ procs' = IF func_id(procs[p].op) \in markers
                THEN Ends(p, "returned")
                ELSE [procs EXCEPT ![p].pc = "func"]
    /\ UNCHANGED <<markerDir, markers>>
    /\ RaceFrame

\* The try block: func runs and ends in one of these ways.
RunFunc(p) ==
    /\ procs[p].pc = "func"
    /\ \E outcome \in Outcomes :
          procs' =
            IF outcome = "returned"
            THEN [procs EXCEPT ![p].pc = "file.open"]
            ELSE IF ~CaughtByExceptException(outcome)
                      \/ RetryRaises(procs[p].op.retry)
            THEN Ends(p, outcome)
            ELSE [procs EXCEPT ![p].pc = "file.open",
                               ![p].exception = outcome]
    /\ UNCHANGED <<markerDir, markers>>
    /\ RaceFrame

\* `with file.open(mode='a')`: the marker exists; then the kept
\* exception is raised or wrapper returns.
FileOpen(p) ==
    /\ procs[p].pc = "file.open"
    /\ markers' = markers \cup {func_id(procs[p].op)}
    /\ procs' = Ends(p, IF procs[p].exception = "none" THEN "returned"
                        ELSE AfterMarker(procs[p].exception))
    /\ UNCHANGED markerDir
    /\ RaceFrame

\* ------------------------------------------------------ installer command
S_verb_ext == <<".", "v", "e", "r", "b">>
S_slash == <<"/">>
\* Path('~/.config/protonfixes/localfixes/', 'verbs').expanduser(), with a
\* short home directory.
S_localverbs == <<"/", "h", "/", "v", "e", "r", "b", "s">>
\* Path(__file__).parent / 'verbs', with util.py in a short directory.
S_bundledverbs == <<"/", "b", "/", "v", "e", "r", "b", "s">>
S_winetricks == <<"w", "i", "n", "e", "t", "r", "i", "c", "k", "s">>
S_unattended == <<"-", "-", "u", "n", "a", "t", "t", "e", "n", "d", "e", "d">>

\* A bug to tell C18 from: the bundled directory is looked at first.
is_custom_verb_bundledfirst(verb, localIsFile, bundledIsFile) ==
    IF verb = S_gui THEN <<>>
    ELSE LET verb_name == verb \o S_verb_ext
         IN  IF bundledIsFile THEN S_bundledverbs \o S_slash \o verb_name
             ELSE IF localIsFile THEN S_localverbs \o S_slash \o verb_name
             ELSE <<>>

\* is_custom_verb(verb): the path of <verb>.verb in the user's directory,
\* else in the bundled one, else False (here the empty path, which is as
\* false as False in `if custom_verb:`).  The two flags say whether
\* <verb>.verb is a file in each directory.
is_custom_verb(verb, localIsFile, bundledIsFile) ==
    IF verb = S_gui THEN <<>>
    ELSE LET verb_name == verb \o S_verb_ext
         IN  IF localIsFile THEN S_localverbs \o S_slash \o verb_name
             ELSE IF bundledIsFile THEN S_bundledverbs \o S_slash \o verb_name
             ELSE <<>>

\* Lines 253-261 of protontricks: the command handed to subprocess.Popen.
winetricks_cmd(verb, localIsFile, bundledIsFile) ==
    LET util_py == <<"u", "t", "i", "l", ".", "p", "y">>
        abspath == <<"/", "b", "/">> \o util_py
        winetricks_bin == Replace(abspath, util_py, S_winetricks)
        plain == IF verb = S_gui THEN <<winetricks_bin, S_unattended>>
                 ELSE <<winetricks_bin, S_unattended>> \o Split(verb, " ")
        custom_verb == is_custom_verb(verb, localIsFile, bundledIsFile)
    IN  IF custom_verb # <<>>
        THEN <<winetricks_bin, S_unattended, custom_verb>>
        ELSE plain

\* The verbs a command is built for: 'gui', and the strings of 'd', 'q',
\* spaces and tabs.
InitCmd ==
    /\ cmdVerb \in SeqsUpTo({"d", "q", " ", "\t"}, MaxVerbLen) \cup {S_gui}
    /\ cmdLocal \in BOOLEAN
    /\ cmdBundled \in BOOLEAN
    /\ cmd = <<>>

\* protontricks builds the command for its verb.
BuildCommand ==
    /\ cmd = <<>>
    /\ cmd' = winetricks_cmd(cmdVerb, cmdLocal, cmdBundled)
    /\ UNCHANGED <<cmdVerb, cmdLocal, cmdBundled>>

\* ------------------------------------------------------------ patch_libcuda
\* Bytes are numbers in 0..255, hexadecimal digits numbers in 0..15.
RECURSIVE hex(_)
\* bytes.hex(): two digits for each byte, the high one first.
hex(data) ==
    IF data = <<>> THEN <<>>
    ELSE <<Head(data) \div 16, Head(data) % 16>> \o hex(Tail(data))

RECURSIVE fromhex(_)
\* bytes.fromhex() of a string of an even number of digits.
fromhex(digits) ==
    IF Len(digits) < 2 THEN <<>>
    ELSE <<16 * digits[1] + digits[2]>>
            \o fromhex(SubSeq(digits, 3, Len(digits)))

\* '000000f8ff000000' and '000000f8ffff0000'
HexOld == <<0, 0, 0, 0, 0, 0, 15, 8, 15, 15, 0, 0, 0, 0, 0, 0>>

\* Lines 498-500: the substitution, done on the hexadecimal string.
PatchBytes(binary_data) ==
    LET new == <<0, 0, 0, 0, 0, 0, 15, 8, 15, 15, 15, 15, 0, 0, 0, 0>>
    IN  fromhex(Replace(hex(binary_data), HexOld, new))

\* What the outside world gives one call that has `size` bytes to write:
\* ~/.cache/protonfixes can be created, ldconfig is found in PATH,
\* `ldconfig -p` exits with status 0, a 64-bit libcuda.so is listed and
\* present, the library can be read, libcuda.patched.so can be opened for
\* writing (which creates it or empties it), how many bytes are stored in
\* it before write() or close() fails (-1: all of them, without error),
\* and chmod succeeds (it does not on a file of another owner).  What a
\* call never gets to is left at TRUE and -1.
CudaExternals(size) ==
    { e \in [cache : BOOLEAN, which : BOOLEAN, ldconfig : BOOLEAN,
             libcuda : BOOLEAN, readable : BOOLEAN, opens : BOOLEAN,
             stored : -1..size, chmod : BOOLEAN] :
        /\ ~e.cache => e.which
        /\ ~(e.cache /\ e.which) => e.ldconfig
        /\ ~(e.cache /\ e.which /\ e.ldconfig) => e.libcuda
        /\ ~(e.cache /\ e.which /\ e.ldconfig /\ e.libcuda) => e.readable
        /\ ~(e.cache /\ e.which /\ e.ldconfig /\ e.libcuda /\ e.readable)
              => e.opens
        /\ ~(e.cache /\ e.which /\ e.ldconfig /\ e.libcuda /\ e.readable
               /\ e.opens) => e.stored = -1
        /\ ~(e.cache /\ e.which /\ e.ldconfig /\ e.libcuda /\ e.readable
               /\ e.opens /\ e.stored = -1) => e.chmod }

\* What a call has done so far: where it stands, what it returned or
\* raised, whether write_bytes() returned and the bytes it wrote then, and
\* whether the call set LD_PRELOAD to libcuda.patched.so.
CudaEnded(result) ==
    [pc |-> "ended", result |-> result, written |-> FALSE, data |-> <<>>,
     ld_preload |-> FALSE]
CudaWaiting ==
    [pc |-> "subprocess.run", result |-> "none", written |-> FALSE,
     data |-> <<>>, ld_preload |-> FALSE]

\* Lines 436-450, up to the start of `ldconfig -p`: cache_dir.mkdir()
\* stands before the try block, so its OSError (NotADirectoryError,
\* PermissionError) leaves patch_libcuda.
patch_libcuda_start(ext) ==
    IF ~ext.cache THEN CudaEnded("OSError")
    ELSE IF ~ext.which THEN CudaEnded("False")
    ELSE CudaWaiting

\* Lines 450-517, from the exit of `ldconfig -p` on: what the call has
\* done, and libcuda.patched.so as the call leaves it.  Lines 502-509
\* return False on an OSError of write_bytes() or chmod(): the file is as
\* it was when it could not be opened, holds the bytes stored so far
\* (none, some, all) when the write failed after open() had emptied it,
\* and holds the patched library when only chmod() failed.
patch_libcuda_finish(binary_data, file, ext) ==
    LET patched == PatchBytes(binary_data)
        holding(data) == [exists |-> TRUE, data |-> data]
    IN  IF ~ext.ldconfig \/ ~ext.libcuda \/ ~ext.readable \/ ~ext.opens
        THEN [call |-> CudaEnded("False"), file |-> file]
        ELSE IF ext.stored # -1
        THEN [call |-> CudaEnded("False"),
              file |-> holding(SubSeq(patched, 1, ext.stored))]
        ELSE IF ~ext.chmod
        THEN [call |-> [pc |-> "ended", result |-> "False", written |-> TRUE,
                        data |-> patched, ld_preload |-> FALSE],
              file |-> holding(patched)]
        ELSE [call |-> [pc |-> "ended", result |-> "True", written |-> TRUE,
                        data |-> patched, ld_preload |-> TRUE],
              file |-> holding(patched)]

\* patch_libcuda() from start to end, nothing else writing the file
\* meanwhile.
patch_libcuda(binary_data, file, ext) ==
    IF patch_libcuda_start(ext) = CudaWaiting
    THEN patch_libcuda_finish(binary_data, file, ext)
    ELSE [call |-> patch_libcuda_start(ext), file |-> file]

RECURSIVE Concat(_)
Concat(seqs) == IF seqs = <<>> THEN <<>> ELSE Head(seqs) \o Concat(Tail(seqs))

\* A launch that has not called patch_libcuda().
NotPatched == [pc |-> "idle", result |-> "none", written |-> FALSE,
               data |-> <<>>, ld_preload |-> FALSE]

\* The library is there, made of pieces: the byte sequence 00 00 00 f8 ff
\* 00 00 00, the bytes 10 00 00 0f 8f f0 00 00 01 (whose hexadecimal
\* digits hold the same sixteen digits one digit further), and single
\* bytes; libcuda.patched.so, in the cache directory the launches share,
\* is not written yet.
InitCuda ==
    /\ cudaIn \in
          LET chunks == { <<0, 0, 0, 248, 255, 0, 0, 0>>,
                          <<16, 0, 0, 15, 143, 240, 0, 0, 1>>,
                          <<0>>, <<255>> }
          IN  {Concat(cs) : cs \in SeqsUpTo(chunks, MaxChunks)}
    /\ cudaFile = [exists |-> FALSE, data |-> <<>>]
    /\ cudaOut = [p \in Launches |-> NotPatched]

\* What a step of patch_libcuda leaves alone.
CudaFrame ==
    UNCHANGED <<varsPT, varsOnce, varsCk, varsEnv, varsRace, varsCmd, cudaIn>>

\* A fix of launch p calls patch_libcuda(): the cache directory is made,
\* ldconfig is looked up and `ldconfig -p` is started.
PatchLibcudaStart(p) ==
    /\ cudaOut[p].pc = "idle"
    /\ \E ext \in CudaExternals(0) :
          /\ ext.ldconfig /\ ext.libcuda /\ ext.readable /\ ext.opens
          /\ ext.stored = -1 /\ ext.chmod
          /\ cudaOut' = [cudaOut EXCEPT ![p] = patch_libcuda_start(ext)]
    /\ UNCHANGED cudaFile
    /\ CudaFrame

\* `ldconfig -p` has exited in launch p: subprocess.run returns and the
\* library is looked up, read, patched and written.
PatchLibcudaFinish(p) ==
    /\ cudaOut[p].pc = "subprocess.run"
    /\ \E ext \in CudaExternals(Len(cudaIn)) :
          /\ ext.cache /\ ext.which
          /\ \E r \in {patch_libcuda_finish(cudaIn, cudaFile, ext)} :
                /\ cudaOut' = [cudaOut EXCEPT ![p] = r.call]
                /\ cudaFile' = r.file
    /\ CudaFrame

\* --------------------------------------------------------- specifications
IdlePT ==
    /\ reglog = NoFile /\ forcedlog = NoFile /\ argv = <<>> /\ call = NoCall
    /\ succeeded = {} /\ inflight = [p \in Launches |-> NotInstalling]
IdleOnce ==
    /\ markerDir = FALSE /\ markers = {}
    /\ history = [op \in Ops |-> <<>>] /\ invocation = NoInvocation
IdleCk == ckVerb = <<>> /\ ckFile = NoFile /\ ckResult = "none"
IdleRace ==
    procs = [p \in Procs |-> [pc |-> "idle", op |-> CHOOSE op \in Ops : TRUE,
                              exception |-> "none", result |-> "none"]]
IdleCuda ==
    /\ cudaIn = <<>> /\ cudaFile = [exists |-> FALSE, data |-> <<>>]
    /\ cudaOut = [p \in Launches |->
                    [pc |-> "idle", result |-> "none", written |-> FALSE,
                     data |-> <<>>, ld_preload |-> FALSE]]
IdleCmd ==
    cmdVerb = <<>> /\ cmdLocal = FALSE /\ cmdBundled = FALSE /\ cmd = <<>>
IdleEnv ==
    /\ osenv = [v \in EnvVars |-> Unset] /\ sessenv = osenv /\ touched = {}
    /\ envCall = NoEnvCall /\ envCalls = 0
    /\ cpus = 0 /\ smt = "0" /\ userTopo = Unset /\ ignoredSetting = FALSE

\* A step of protontricks in a launch, or of the installer it waits for.
InstallStep(p, verbs) ==
    \/ Protontricks(p, verbs)
    \/ CheckInstalled(p)
    \/ SubprocessCallReturns(p)
    \/ InstallerRecords(p)
    \/ ProcessWaitReturns(p)
    \/ CheckInstalledAgain(p)
    \/ ForceInstalled(p)

\* Two launches of one game sharing its prefix: started with the same
\* command line, they run the same fix; their calls of protontricks are
\* interleaved step by step, a step being a read or a write of a log or
\* the return of a call that blocks.
Init ==
    InitPT(Launches) /\ argv[1] = argv[2] /\ IdleOnce /\ IdleCk /\ IdleEnv
        /\ IdleRace /\ IdleCmd /\ IdleCuda
Next == \E p \in Launches : InstallStep(p, Verbs)
Spec == Init /\ [][Next]_vars

\* One launch alone in its prefix, the single-process execution the
\* helpers are written for: protontricks called again and again.
InitA ==
    InitPT({1}) /\ IdleOnce /\ IdleCk /\ IdleEnv
        /\ IdleRace /\ IdleCmd /\ IdleCuda
NextA == InstallStep(1, Verbs)
SpecAlone == InitA /\ [][NextA]_vars

\* One launch alone in its prefix: everything that writes its sys.argv.
NextV ==
    \/ InstallStep(1, Verbs)
    \/ AppendArgument(1)
    \/ ReplaceCommand(1)
SpecArgv == InitA /\ [][NextV]_vars

\* once-wrapped operations invoked again and again in one prefix.
InitO ==
    InitOnce /\ IdlePT /\ IdleCk /\ IdleEnv
        /\ IdleRace /\ IdleCmd /\ IdleCuda
NextO ==
    Invoke
        /\ UNCHANGED <<varsPT, varsCk, varsEnv, varsRace, varsCmd, varsCuda>>
SpecOnce == InitO /\ [][NextO]_vars

\* _checkinstalled() applied to every small verb and log.
InitC ==
    InitCk /\ IdlePT /\ IdleOnce /\ IdleEnv
        /\ IdleRace /\ IdleCmd /\ IdleCuda
NextC ==
    CheckInstalledOnce
        /\ UNCHANGED <<varsPT, varsOnce, varsEnv, varsRace, varsCmd, varsCuda>>
SpecCheck == InitC /\ [][NextC]_vars

\* The environment helpers called in one launch.
InitE ==
    InitEnv /\ IdlePT /\ IdleOnce /\ IdleCk
        /\ IdleRace /\ IdleCmd /\ IdleCuda
NextE ==
    \/ SetEnvironment
    \/ DelEnvironment
    \/ WinedllOverride
    \/ DisableNvapi
    \/ DisableEsync
    \/ SetCpuTopology
    \/ SetCpuTopologyNosmt
    \/ SetCpuTopologyLimit
SpecEnv == InitE /\ [][NextE]_vars

\* Operations of one name and different scopes invoked in one prefix.
InitS ==
    InitScoped /\ IdlePT /\ IdleCk /\ IdleEnv
        /\ IdleRace /\ IdleCmd /\ IdleCuda
NextS ==
    InvokeScoped
        /\ UNCHANGED <<varsPT, varsCk, varsEnv, varsRace, varsCmd, varsCuda>>
SpecScope == InitS /\ [][NextS]_vars

\* Two invocations of once-wrapped operations interleaved in a fresh prefix.
InitR ==
    InitRace /\ IdlePT /\ IdleCk /\ IdleEnv
        /\ IdleCmd /\ IdleCuda
NextR ==
    \/ \E p \in Procs : DirectoryExists(p)
    \/ \E p \in Procs : DirectoryMkdir(p)
    \/ \E p \in Procs : FileExists(p)
    \/ \E p \in Procs : RunFunc(p)
    \/ \E p \in Procs : FileOpen(p)
SpecRace == InitR /\ [][NextR]_vars

\* The installer command built for every small verb.
InitB ==
    InitCmd /\ IdlePT /\ IdleOnce /\ IdleCk
        /\ IdleEnv /\ IdleRace /\ IdleCuda
NextB ==
    BuildCommand
        /\ UNCHANGED <<varsPT, varsOnce, varsCk, varsEnv, varsRace, varsCuda>>
SpecCmd == InitB /\ [][NextB]_vars

\* patch_libcuda() called by two launches on every small library.
InitL ==
    InitCuda /\ IdlePT /\ IdleOnce /\ IdleCk /\ IdleEnv /\ IdleRace /\ IdleCmd
NextL ==
    \E p \in Launches : PatchLibcudaStart(p) \/ PatchLibcudaFinish(p)
SpecCuda == InitL /\ [][NextL]_vars

\* ================================================================ claims
Occurs(e, seq) == \E i \in 1..Len(seq) : seq[i] = e
Before(a, b, seq) ==
    \E i, j \in 1..Len(seq) : i < j /\ seq[i] = a /\ seq[j] = b
Skipped == [func |-> "not run", result |-> "returned"]

\* ------------------------------------------------------------------ C1
\* C1 as stated: with the default policy, whatever way the first run ends
\* (return or anything raised), the first invocation runs the operation
\* and no later invocation runs it again.
C1_AnyOutcomeRunsOnce ==
    \A op \in Ops :
        (~op.retry /\ history[op] # <<>>) =>
            /\ history[op][1].func # "not run"
            /\ \A i \in 2..Len(history[op]) : history[op][i] = Skipped

\* C1 amended: with the default policy, when the first run returns or
\* raises an exception derived from Exception, the operation is run exactly
\* once: the marker exists and every later invocation returns without
\* running it.  When the first run raises what is only a BaseException,
\* the next invocation runs the operation again.
C1_RunsOnce ==
    \A op \in Ops :
        (~op.retry /\ history[op] # <<>>) =>
            /\ history[op][1].func # "not run"
            /\ history[op][1].func
                  \in {"returned", "Exception", "falsy Exception"} =>
                  /\ func_id(op) \in markers
                  /\ \A i \in 2..Len(history[op]) : history[op][i] = Skipped
            /\ (history[op][1].func = "BaseException" /\ Len(history[op]) >= 2) =>
                  history[op][2].func # "not run"

\* The operation raised on its first run and the second invocation found
\* the marker.
C1_Witness ==
    \E op \in Ops :
        /\ ~op.retry /\ Len(history[op]) >= 2
        /\ history[op][1].func = "Exception"
        /\ history[op][2] = Skipped

\* ------------------------------------------------------------------ C2
\* C2: with retry=True, an invocation whose run fails raises that failure
\* to the caller and leaves no marker, so the next invocation runs the
\* operation again; after the first run that returns, the marker exists
\* and every later invocation skips the operation.
C2_RetryUntilSuccess ==
    \A op \in Ops : op.retry =>
        \A i \in 1..Len(history[op]) :
            LET e == history[op][i]
                last == i = Len(history[op])
            IN  /\ e.func \notin {"returned", "not run"} =>
                      /\ e.result = e.func
                      /\ last => func_id(op) \notin markers
                      /\ ~last => history[op][i + 1].func # "not run"
                /\ e.func = "returned" =>
                      /\ e.result = "returned"
                      /\ func_id(op) \in markers
                      /\ \A j \in (i + 1)..Len(history[op]) :
                            history[op][j] = Skipped

\* A retried operation failed, was run again and succeeded, and was then
\* skipped.
C2_Witness ==
    \E op \in Ops :
        /\ op.retry /\ Len(history[op]) >= 3
        /\ history[op][1].func = "Exception"
        /\ history[op][2].func = "returned"
        /\ history[op][3] = Skipped

\* ------------------------------------------------------------------ C3
\* C3: with the default policy, whenever the operation fails (raises), the
\* marker is written and then the same failure is raised to the caller.
C3_AnyFailureMarked ==
    (~invocation.retry /\ invocation.func \notin {"returned", "not run"}) =>
        /\ invocation.func_id \in markers
        /\ invocation.result = invocation.func
        /\ Before("marker", "raise", invocation.steps)

\* What the code does with the default policy: an exception derived from
\* Exception is raised to the caller after the marker is written when its
\* truth value is True, and dropped after the marker is written when its
\* truth value is False; an exception that is only a BaseException
\* reaches the caller and no marker is written.
C3_FailureMarked ==
    /\ (~invocation.retry /\ invocation.func = "Exception") =>
          /\ invocation.func_id \in markers
          /\ invocation.result = "Exception"
          /\ Before("func", "marker", invocation.steps)
          /\ Before("marker", "raise", invocation.steps)
    /\ (~invocation.retry /\ invocation.func = "falsy Exception") =>
          /\ invocation.func_id \in markers
          /\ invocation.result = "returned"
          /\ ~Occurs("raise", invocation.steps)
    /\ (~invocation.retry /\ invocation.func = "BaseException") =>
          /\ invocation.func_id \notin markers
          /\ invocation.result = "BaseException"
          /\ ~Occurs("marker", invocation.steps)

\* ------------------------------------------------------------------ C4
\* The step being taken ends the log check of line 235 with this result:
\* the verb is found in the log the step reads, or that log was the last
\* to read ('gui' is looked up in neither).
Called(installed) ==
    \/ /\ call'.step = "protontricks" /\ call'.verb = S_gui /\ ~installed
    \/ /\ call'.step = "protontricks" /\ call'.verb # S_gui /\ installed
       /\ U_checkinstalled(call'.verb, forcedlog)
    \/ /\ call'.step = "checkinstalled"
       /\ U_checkinstalled(call'.verb, reglog) = installed
\* The step being taken is the return of process.wait() in protontricks.
Exiting == call'.step = "process.wait"
\* The steps of protontricks from the return of process.wait() on.
ExitSteps == {"process.wait", "checkinstalled again", "_forceinstalled"}
\* The step that has just been taken is one of those: the installer was
\* started and has exited with this status.
InstallerExited(status) ==
    call.step \in ExitSteps /\ call.ext.retc = status

\* C4: a call of protontricks(verb) with the verb already installed
\* returns True, runs neither the wineserver wait, the installer nor the
\* hung-process sweep, and leaves both logs as they were.
C4_InstalledReturnsTrue ==
    [][ Called(TRUE) =>
            /\ call'.result = "True"
            /\ call'.events = <<>>
            /\ reglog' = reglog /\ forcedlog' = forcedlog ]_vars

\* What the code does in that case: it returns False, and otherwise does
\* what C4 says.
C4_InstalledReturnsFalse ==
    [][ Called(TRUE) =>
            /\ call'.result = "False"
            /\ call'.events = <<>>
            /\ reglog' = reglog /\ forcedlog' = forcedlog /\ argv' = argv ]_vars

\* ------------------------------------------------------------------ C5
\* What a step of the log check of line 235 does when the network probe
\* fails or is not made: the call returns False when the check has ended
\* with the verb not found, neither the wineserver wait nor the installer
\* is started, and both logs and sys.argv are left as they were.
NoNetworkStep ==
    /\ (Called(FALSE) /\ ~call'.ext.connects) =>
          /\ call'.result = "False"
          /\ call'.events = <<"check_internet">>
          /\ inflight'[call'.launch] = NotInstalling
    /\ (call'.step \in {"protontricks", "checkinstalled"}
          /\ ~call'.ext.connects) =>
          /\ ~Occurs("winetricks", call'.events)
          /\ ~Occurs("wineserver -w", call'.events)
          /\ reglog' = reglog /\ forcedlog' = forcedlog /\ argv' = argv

\* C5: a call with the verb not installed and the network probe failing
\* returns False, runs neither the wineserver wait nor the installer, and
\* leaves both logs and sys.argv as they were.  (One launch alone in the
\* prefix: the verb is not installed when the logs, as they are during
\* the call, do not hold it, and the log check of such a call ends with
\* the verb not found.)
C5_NoNetwork ==
    [][ /\ NoNetworkStep
        /\ Called(FALSE) => ~checkinstalled(call'.verb, forcedlog, reglog)
        /\ ( /\ call'.step \in {"protontricks", "checkinstalled"}
             /\ ~checkinstalled(call'.verb, forcedlog, reglog) ) =>
              \/ Called(FALSE)
              \/ /\ call'.result = "none"
                 /\ inflight'[call'.launch].pc = "checkinstalled" ]_vars

\* The same of every step by itself when two launches share the prefix,
\* the verb not installed being what the reads of the call found.
C5_NoNetworkShared == [][NoNetworkStep]_vars

\* A call was made with the verb in neither log and no network.
C5_Witness ==
    /\ call.step = "checkinstalled" /\ call.verb = S_dx
    /\ ~checkinstalled(call.verb, forcedlog, reglog)
    /\ call.result = "False" /\ ~call.ext.connects
    /\ call.events = <<"check_internet">>

\* ------------------------------------------------------------------ C6
\* The step being taken ends the log check of line 288 with this result.
CheckedAgain(installed) ==
    \/ /\ Exiting /\ call'.ext.retc = 0 /\ call'.verb = S_gui /\ ~installed
    \/ /\ Exiting /\ call'.ext.retc = 0 /\ call'.verb # S_gui /\ installed
       /\ U_checkinstalled(call'.verb, forcedlog)
    \/ /\ call'.step = "checkinstalled again"
       /\ U_checkinstalled(call'.verb, reglog) = installed

\* What a step of protontricks does after exit status 0: the call goes on
\* or returns True; when its log check ends with the verb found it
\* returns True and the forced log is not written; when the check ends
\* with the verb not found the call goes on to _forceinstalled, whose step
\* appends one line, the verb, and returns True; no other step writes a
\* log.
ExitZeroStep ==
    (call'.step \in ExitSteps /\ call'.ext.retc = 0) =>
        /\ call'.result \in {"True", "none"}
        /\ reglog' = reglog
        /\ CheckedAgain(TRUE) =>
              /\ call'.result = "True"
              /\ forcedlog' = forcedlog
        /\ CheckedAgain(FALSE) =>
              /\ inflight'[call'.launch].pc = "_forceinstalled"
              /\ forcedlog' = forcedlog
        /\ call'.result = "none" =>
              /\ inflight'[call'.launch].pc
                    \in {"checkinstalled again", "_forceinstalled"}
              /\ forcedlog' = forcedlog
        /\ call'.step = "_forceinstalled" =>
              /\ call'.result = "True"
              /\ forcedlog'.exists
              /\ forcedlog'.lines = Append(forcedlog.lines, call'.verb)
        /\ call'.result = "True" => inflight'[call'.launch] = NotInstalling

\* C6: when the installer exits with status 0 the call returns True; the
\* forced log gains exactly one line, the verb, when the check after the
\* installation does not find the verb, and is not written when it does;
\* it is not written when the verb is found in the regular log, whatever
\* the verb.  (One launch alone in the prefix: what the check finds is
\* what the logs hold while the call goes on.)
C6_ExitZero ==
    [][ /\ ExitZeroStep
        /\ (call'.step \in ExitSteps /\ call'.ext.retc = 0) =>
              /\ CheckedAgain(TRUE) =>
                    checkinstalled(call'.verb, forcedlog, reglog)
              /\ CheckedAgain(FALSE) =>
                    ~checkinstalled(call'.verb, forcedlog, reglog)
              /\ call'.step = "_forceinstalled" =>
                    ~checkinstalled(call'.verb, forcedlog, reglog)
              /\ call'.result = "True" =>
                    IF checkinstalled(call'.verb, forcedlog, reglog)
                    THEN forcedlog' = forcedlog
                    ELSE forcedlog'.lines = Append(forcedlog.lines, call'.verb)
              /\ U_checkinstalled(call'.verb, reglog) => forcedlog' = forcedlog
      ]_vars

\* The same of every step by itself when two launches share the prefix,
\* the check of a call being what its own reads found.
C6_ExitZeroShared == [][ExitZeroStep]_vars

\* The installer exited 0 without recording the verb, which was forced.
C6_Witness ==
    /\ call.step = "_forceinstalled" /\ call.ext.retc = 0
    /\ call.result = "True" /\ call.verb = S_dx
    /\ ~U_checkinstalled(call.verb, reglog)
    /\ forcedlog.lines = <<call.verb>>

\* The installer exited 0 and recorded the verb: no forced log.
C6_WitnessRecorded ==
    /\ call.step = "checkinstalled again" /\ call.ext.retc = 0
    /\ call.result = "True"
    /\ call.ext.written # <<>>
    /\ U_checkinstalled(call.verb, reglog)
    /\ forcedlog = NoFile

\* ------------------------------------------------------------------ C7
\* C7: when the installer exits with a non-zero status the call returns
\* False and does not write the forced log, and checkinstalled(verb) is
\* True afterwards only if the installer recorded the verb in the regular
\* log.  (One launch alone in the prefix.)
C7_ExitNonZero ==
    [][ (Exiting /\ call'.ext.retc # 0) =>
            /\ call'.result = "False"
            /\ inflight'[call'.launch] = NotInstalling
            /\ forcedlog' = forcedlog
            /\ checkinstalled(call'.verb, forcedlog', reglog') =>
                  /\ call'.ext.written # <<>>
                  /\ U_checkinstalled(call'.verb, reglog') ]_vars

\* The installer failed and the verb is still not installed.
C7_Witness ==
    /\ InstallerExited(1) /\ call.result = "False"
    /\ Occurs("winetricks", call.events)
    /\ ~checkinstalled(call.verb, forcedlog, reglog)

\* The installer failed after it had recorded the verb.
C7_WitnessRecorded ==
    /\ InstallerExited(1) /\ call.result = "False"
    /\ checkinstalled(call.verb, forcedlog, reglog)

\* ------------------------------------------------------------------ C8
HasEq(s) == Occurs("=", s)
\* The key of 'key=value': what stands before the first '='.
KeyOf(s) ==
    LET i == CHOOSE k \in 1..Len(s) :
                 s[k] = "=" /\ \A j \in 1..(k - 1) : s[j] # "="
    IN  SubSeq(s, 1, i - 1)
\* The lines of a log recorded for a key, by position.
LinesForKey(lines, key) ==
    { i \in 1..Len(lines) :
        HasEq(Strip(lines[i])) /\ KeyOf(Strip(lines[i])) = key }
Latest(I) == CHOOSE i \in I : \A j \in I : j <= i

\* What C8 says _checkinstalled returns for a verb and a log.
C8_Expected(verb, file) ==
    /\ file.exists
    /\ IF HasEq(verb)
       THEN LET I == LinesForKey(file.lines, KeyOf(verb))
            IN  I # {} /\ Strip(file.lines[Latest(I)]) = verb
       ELSE \E i \in 1..Len(file.lines) : Strip(file.lines[i]) = verb

\* C8: _checkinstalled on one log returns True, for a key=value verb,
\* exactly when the most recent line recorded for that key is key=value,
\* and for a bare verb exactly when some line is the verb; a missing log
\* gives False.
C8_CheckInstalled ==
    ckResult # "none" =>
        ((ckResult = "True") <=> C8_Expected(ckVerb, ckFile))

\* No character of the string is special in a regular expression.
Literal(s) == \A i \in 1..Len(s) : s[i] \notin ReRepeats \cup {".", "(", ")"}

\* The same restricted to verbs with at most one '=' and a key free of
\* regular-expression characters: there the code does what C8 says.
C8_OneEquals ==
    (ckResult # "none" /\ Len(Split(ckVerb, "=")) <= 2 /\ Literal(ckVerb)) =>
        ((ckResult = "True") <=> C8_Expected(ckVerb, ckFile))

\* A key with a '.' is matched as a pattern, and a key that is no valid
\* pattern makes the check raise.
C8_KeyIsLiteral ==
    (ckResult # "none" /\ Len(Split(ckVerb, "=")) <= 2) =>
        /\ ckResult # "re.error"
        /\ (ckResult = "True") <=> C8_Expected(ckVerb, ckFile)

\* ------------------------------------------------------------------ C9
\* C9 as stated: every verb that is a line of the forced log is reported
\* installed by checkinstalled, whatever was appended to either log since.
C9_ForcedAlwaysInstalled ==
    \A verb \in Verbs :
        Occurs(verb, forcedlog.lines) =>
            checkinstalled(verb, forcedlog, reglog)

\* C9 amended: every bare verb (no '=') other than 'gui' that equals a
\* line of the forced log, the line stripped of surrounding whitespace, is
\* reported installed, whatever the regular log holds and whatever was
\* appended to either log since.  (Checked besides: a verb with one '=' is
\* reported installed while it is the most recent forced-log line for its
\* key.)
C9_ForcedInstalled ==
    \A verb \in Verbs :
        /\ ( /\ verb # S_gui /\ ~HasEq(verb)
             /\ \E i \in 1..Len(forcedlog.lines) :
                   Strip(forcedlog.lines[i]) = verb ) =>
              checkinstalled(verb, forcedlog, reglog)
        /\ ( /\ Len(Split(verb, "=")) = 2
             /\ LinesForKey(forcedlog.lines, KeyOf(verb)) # {}
             /\ Strip(forcedlog.lines[Latest(LinesForKey(forcedlog.lines,
                                                        KeyOf(verb)))]) = verb ) =>
              checkinstalled(verb, forcedlog, reglog)

\* A bare verb was forced, another line was forced after it, and the
\* regular log does not hold the verb.
C9_Witness ==
    \E verb \in Verbs \ {S_gui} :
        /\ ~HasEq(verb)
        /\ \E i \in 1..(Len(forcedlog.lines) - 1) : forcedlog.lines[i] = verb
        /\ forcedlog.lines[Len(forcedlog.lines)] # verb
        /\ ~U_checkinstalled(verb, reglog)

\* ------------------------------------------------------------------ C10
\* The steps of protontricks.
CallSteps ==
    {"protontricks", "checkinstalled", "subprocess.call"} \cup ExitSteps

\* C10: protontricks never raises: a launch error of the wineserver wait
\* or of the installer (a missing binary among them) and a non-zero exit
\* of the installer each make it return False.
C10_NeverRaises ==
    (call.step \in CallSteps /\ call.result # "none") =>
        /\ call.result \in {"True", "False"}
        /\ (call.ext.connects
              /\ (~call.ext.wineserver \/ ~call.ext.winetricks
                    \/ call.ext.retc # 0)) => call.result = "False"

\* ------------------------------------------------------------------ C11
\* A bare verb: no '=', not the 'gui' pseudo-verb.
Bare(verb) == verb # S_gui /\ ~HasEq(verb)
\* The lines a step appended to a log.
NewLines(old, new) == SubSeq(new.lines, Len(old.lines) + 1, Len(new.lines))
\* No line a step appended to either log is a setting of this key.
NoNewLineForKey(key) ==
    /\ LinesForKey(NewLines(forcedlog, forcedlog'), key) = {}
    /\ LinesForKey(NewLines(reglog, reglog'), key) = {}
\* The step being taken belongs to a call of protontricks for a verb for
\* which an earlier call has returned True.
CalledAgain == call'.step \in CallSteps /\ call'.verb \in succeeded

    /\ Occurs(call.verb, forcedlog.lines)
    /\ ~U_checkinstalled(call.verb, reglog)

\* protontricks('gui') returned True twice.
C11_WitnessGui ==
    /\ call.verb = S_gui /\ call.result = "True"
    /\ forcedlog.lines = <<S_gui, S_gui>>

\* 's=a' was forced and 's=o' recorded in the regular log after it: both
\* are reported installed, and a later call for 's=a' ends in its check.
C11_WitnessForced ==
    /\ call.step = "protontricks" /\ call.verb = S_s_a
    /\ call.result = "False" /\ call.events = <<>>
    /\ forcedlog.lines = <<S_s_a>> /\ reglog.lines = <<S_s_o>>
    /\ {S_s_a, S_s_o} \subseteq succeeded

\* 's=a' was installed by a call that returned True, 's=o' was recorded
\* after it, and a later call for 's=a' has started the installer again.
C11_WitnessAgain ==
    /\ call.verb = S_s_a /\ S_s_a \in succeeded
    /\ reglog.lines = <<S_s_a, S_s_o>> /\ forcedlog = NoFile
    /\ Occurs("winetricks", call.events)

\* ------------------------------------------------------------------ C12
\* C12: after any sequence of environment helper calls, every variable a
\* helper has changed has the same presence and the same value in
\* os.environ and in g_session.env.
C12_EnvInSync ==
    \A v \in touched : osenv[v] = sessenv[v]

\* What the code keeps: the variables written by set_environment and
\* del_environment alone (all but WINEDLLOVERRIDES) are in sync.
C12_SetDelInSync ==
    \A v \in touched \ {"WINEDLLOVERRIDES"} : osenv[v] = sessenv[v]

\* ------------------------------------------------------------------ C13
\* The value of WINE_CPU_TOPOLOGY is the topology of some core count in
\* lo..hi.
TopologyWithin(lo, hi) ==
    \E k \in lo..hi : osenv["WINE_CPU_TOPOLOGY"] = Val(cpu_topology(k))

\* C13: a call of set_cpu_topology_nosmt that has set the topology (SMT
\* active) has set it to the physical core count, logical // threads per
\* core, and, when a positive core_limit smaller than that count was
\* given, to a core count that does not exceed core_limit.
C13_NosmtLimited ==
    (envCall.name = "set_cpu_topology_nosmt" /\ envCall.result = "True") =>
        LET physical == cpus \div envCall.tpc
        IN  IF 0 < envCall.count /\ envCall.count < physical
            THEN TopologyWithin(1, envCall.count)
            ELSE TopologyWithin(physical, physical)

\* What the code does: the physical core count is written whatever the
\* limit.
C13_NosmtPhysical ==
    (envCall.name = "set_cpu_topology_nosmt" /\ envCall.result = "True") =>
        TopologyWithin(cpus \div envCall.tpc, cpus \div envCall.tpc)

\* ------------------------------------------------------------------ C14
TopologyHelpers ==
    {"set_cpu_topology", "set_cpu_topology_nosmt", "set_cpu_topology_limit"}

\* The core count the last topology helper call asks set_cpu_topology
\* for, 0 when the helper skips the fix: its argument, the limit when it
\* is below the logical cpu count, the physical core count when SMT is
\* active.
C14_CoreCount ==
    CASE envCall.name = "set_cpu_topology" -> envCall.count
      [] envCall.name = "set_cpu_topology_limit" ->
            IF envCall.count < cpus THEN envCall.count ELSE 0
      [] envCall.name = "set_cpu_topology_nosmt" ->
            IF smt = "1" THEN cpus \div envCall.tpc ELSE 0
      [] OTHER -> 0

\* C14: with no helper called with ignore_user_setting=True, in a launch
\* where the user did not set WINE_CPU_TOPOLOGY every topology helper call
\* with a positive core count n returns True and leaves the variable at
\* the topology of n cores, also after earlier helper calls; in a launch
\* where the user did set it (to a non-empty value), every such call
\* returns False and leaves the user's value.
C14_OnlyUserTopologyWins ==
    (envCall.name \in TopologyHelpers /\ ~ignoredSetting) =>
        /\ (~userTopo.set /\ C14_CoreCount > 0) =>
              /\ envCall.result = "True"
              /\ osenv["WINE_CPU_TOPOLOGY"] = Val(cpu_topology(C14_CoreCount))
        /\ (userTopo.set /\ userTopo.value # <<>>) =>
              /\ envCall.result = "False"
              /\ osenv["WINE_CPU_TOPOLOGY"] = userTopo

\* What the code does: a call with ignore_user_setting=False that finds
\* any non-empty value, the user's or an earlier helper's, returns False
\* and leaves it; a call that finds the variable unset or empty sets it.
C14_FirstValueWins ==
    [][ (envCall'.name \in TopologyHelpers /\ ~envCall'.ignore) =>
          IF osenv["WINE_CPU_TOPOLOGY"].set
                /\ osenv["WINE_CPU_TOPOLOGY"].value # <<>>
          THEN envCall'.result = "False" /\ osenv' = osenv /\ sessenv' = sessenv
          ELSE envCall'.result = "True" <=> osenv' # osenv ]_vars

\* ------------------------------------------------------------------ C15
\* Each of the two steps was taken exactly once, the first before the
\* second.
Precedes(a, b, seq) ==
    /\ Cardinality({i \in 1..Len(seq) : seq[i] = a}) = 1
    /\ Cardinality({i \in 1..Len(seq) : seq[i] = b}) = 1
    /\ Before(a, b, seq)

\* C15: in every call that reaches the installation (verb not installed,
\* network up, both binaries start), the wineserver wait is over before
\* the installer starts, the installer is waited for, the hung-process
\* sweep runs after the installer has exited and before its exit status
\* is looked at, whether that status is zero or not, and the log check
\* after the installation comes after the sweep.
C15_InstallOrder ==
    \A status \in {0, 1} :
        InstallerExited(status) =>
            /\ Precedes("wineserver -w", "winetricks", call.events)
            /\ Precedes("winetricks", "process.wait", call.events)
            /\ Precedes("process.wait", "_killhanging", call.events)
            /\ Precedes("_killhanging", "returncode", call.events)
            /\ status = 0 =>
                  Precedes("_killhanging", "checkinstalled", call.events)
            /\ status # 0 => ~Occurs("checkinstalled", call.events)

\* The installer exited with a non-zero status and the sweep was run.
C15_Witness ==
    /\ InstallerExited(1)
    /\ Before("process.wait", "_killhanging", call.events)

\* The installer exited 0, the sweep was run and then the logs checked.
C15_WitnessZero ==
    /\ InstallerExited(0)
    /\ Before("_killhanging", "checkinstalled", call.events)

\* ------------------------------------------------------------------ C16
\* C16: when two processes invoke once-wrapped operations concurrently in
\* a prefix whose marker directory does not exist, under every
\* interleaving neither invocation fails because of the directory
\* creation.
C16_MkdirRaceSafe ==
    \A p \in Procs : procs[p].result # "FileExistsError"

\* What the code gives: whenever both processes found the directory
\* missing, the one that calls mkdir second fails; an invocation that
\* finds the directory in place does not.
C16_SecondMkdirFails ==
    [][ \A p \in Procs :
          (procs[p].pc = "directory.mkdir" /\ procs'[p].pc # "directory.mkdir") =>
              (procs'[p].result = "FileExistsError" <=> markerDir) ]_vars

\* ------------------------------------------------------------------ C17
\* The operation has been run by one of its invocations.
HasRun(op) == \E i \in 1..Len(history[op]) : history[op][i].func # "not run"

\* C17: operations of one function name defined in different scopes
\* (different modules, or different classes or enclosing functions of one
\* module) have different marker files: the marker an operation leaves
\* when it is run is not the marker file of another of them, which has
\* no marker file until it is run itself.
C17_ScopesDistinct ==
    \A a \in ScopedOps : \A b \in ScopedOps \ {a} :
        (HasRun(a) /\ ~HasRun(b)) => func_id(b) \notin markers

\* What the code gives: operations of different modules never share a
\* marker file, and a marker exists only when an operation of that module
\* and function name has been run.
C17_ModulesDistinct ==
    \A a \in ScopedOps :
        /\ func_id(a) \in markers =>
              \E b \in ScopedOps : func_id(b) = func_id(a) /\ HasRun(b)
        /\ \A b \in ScopedOps : a.module # b.module => func_id(a) # func_id(b)

\* ------------------------------------------------------------------ C18
\* The tokens of a verb, what str.split() gives: the pieces between its
\* runs of whitespace (spaces, tabs, ...), none of them empty.
Tokens(verb) ==
    LET spaced == [i \in 1..Len(verb) |->
                      IF verb[i] \in Whitespace THEN " " ELSE verb[i]]
    IN  SelectSeq(Split(spaced, " "), LAMBDA t : t # <<>>)
\* The path of the verb file the claim gives precedence to.
VerbFile(verb) ==
    (IF cmdLocal THEN S_localverbs ELSE S_bundledverbs)
        \o S_slash \o verb \o S_verb_ext
\* The number of spaces in a verb.
Spaces(verb) == Cardinality({i \in 1..Len(verb) : verb[i] = " "})

\* C18 as stated: the command is [installer, '--unattended', path] when
\* <verb>.verb exists, the user's directory first, and otherwise
\* [installer, '--unattended'] followed by the verb's tokens, the verb
\* split on whitespace with no empty tokens.
C18_CommandAsStated ==
    cmd # <<>> =>
        /\ SubSeq(cmd, 1, 2) = <<S_slash \o <<"b">> \o S_slash \o S_winetricks,
                                 S_unattended>>
        /\ IF cmdLocal \/ cmdBundled
           THEN SubSeq(cmd, 3, Len(cmd)) = <<VerbFile(cmdVerb)>>
           ELSE SubSeq(cmd, 3, Len(cmd)) = Tokens(cmdVerb)

\* C18 amended: for a verb other than 'gui' the command is [installer,
\* '--unattended', path] when <verb>.verb exists, the user's directory
\* first, and otherwise [installer, '--unattended'] followed by
\* verb.split(' '): the pieces of the verb between its space characters,
\* one more than it has spaces (one empty piece for the empty verb),
\* which joined by spaces give the verb back, none holding a space; a
\* tab separates nothing.  They are the verb's tokens exactly when the
\* verb is not empty, has no leading, trailing or doubled space and no
\* whitespace other than spaces.  For 'gui' the command is [installer,
\* '--unattended'] whether gui.verb exists or not.
C18_Command ==
    cmd # <<>> =>
        LET tail == SubSeq(cmd, 3, Len(cmd))
        IN  /\ SubSeq(cmd, 1, 2) =
                  <<S_slash \o <<"b">> \o S_slash \o S_winetricks, S_unattended>>
            /\ cmdVerb = S_gui => tail = <<>>
            /\ (cmdVerb # S_gui /\ (cmdLocal \/ cmdBundled)) =>
                  tail = <<VerbFile(cmdVerb)>>
            /\ (cmdVerb # S_gui /\ ~cmdLocal /\ ~cmdBundled) =>
                  /\ Len(tail) = Spaces(cmdVerb) + 1
                  /\ Join(tail, <<" ">>) = cmdVerb
                  /\ \A i \in 1..Len(tail) : ~Occurs(" ", tail[i])
                  /\ cmdVerb = <<>> => tail = << <<>> >>
                  /\ (tail = Tokens(cmdVerb)) <=>
                        /\ cmdVerb # <<>>
                        /\ Head(cmdVerb) # " "
                        /\ cmdVerb[Len(cmdVerb)] # " "
                        /\ ~Contains(cmdVerb, <<" ", " ">>)
                        /\ \A i \in 1..Len(cmdVerb) :
                              cmdVerb[i] \in Whitespace => cmdVerb[i] = " "

\* A verb whose file is in both directories: the user's copy is used.
C18_Witness ==
    /\ cmd # <<>> /\ cmdVerb # S_gui /\ cmdLocal /\ cmdBundled
    /\ cmd[3] = S_localverbs \o S_slash \o cmdVerb \o S_verb_ext

\* A verb of two tokens with no verb file: each token is an argument.
C18_WitnessTokens ==
    /\ cmd # <<>> /\ ~cmdLocal /\ ~cmdBundled
    /\ cmdVerb = <<"d", " ", "q">>
    /\ Len(cmd) = 4

\* A verb with a doubled space: an empty argument is passed.
C18_WitnessEmptyToken ==
    /\ cmd # <<>> /\ ~cmdLocal /\ ~cmdBundled
    /\ cmdVerb = <<"d", " ", " ">>
    /\ Occurs(<<>>, cmd)

\* The empty verb: one empty argument is passed.
C18_WitnessEmptyVerb ==
    /\ ~cmdLocal /\ ~cmdBundled /\ cmdVerb = <<>>
    /\ Len(cmd) = 3 /\ cmd[3] = <<>>

\* A verb of two tokens with a tab between them: one argument is passed.
C18_WitnessTab ==
    /\ cmd # <<>> /\ ~cmdLocal /\ ~cmdBundled
    /\ cmdVerb = <<"d", "\t", "q">>
    /\ Len(cmd) = 3 /\ cmd[3] = cmdVerb
    /\ Tokens(cmdVerb) = << <<"d">>, <<"q">> >>

\* ------------------------------------------------------------------ C19
\* The bytes 00 00 00 f8 ff 00 00 00 and 00 00 00 f8 ff ff 00 00.
BytesOld == <<0, 0, 0, 248, 255, 0, 0, 0>>
BytesNew == <<0, 0, 0, 248, 255, 255, 0, 0>>
\* The positions covered by an occurrence of BytesOld in the data.
InOccurrence(data, i) ==
    \E k \in 1..Len(data) :
        MatchesAt(data, BytesOld, k) /\ k <= i /\ i < k + Len(BytesOld)

\* C19: the bytes patch_libcuda writes are those of the byte-level
\* replacement of 00 00 00 f8 ff 00 00 00 by 00 00 00 f8 ff ff 00 00: as
\* many bytes as were read, different only inside occurrences of the
\* first sequence.
C19_ByteLevelPatch ==
    \A p \in Launches : cudaOut[p].written =>
        /\ cudaOut[p].data = Replace(cudaIn, BytesOld, BytesNew)
        /\ Len(cudaOut[p].data) = Len(cudaIn)
        /\ \A i \in 1..Len(cudaIn) :
              cudaOut[p].data[i] # cudaIn[i] => InOccurrence(cudaIn, i)

\* What the code keeps: the length, and the byte-level result for a
\* library whose hexadecimal digits hold the sixteen digits at byte
\* boundaries only; a call that returns True has written these bytes.
C19_AlignedOnly ==
    \A p \in Launches : cudaOut[p].written =>
        /\ Len(cudaOut[p].data) = Len(cudaIn)
        /\ cudaOut[p].data = PatchBytes(cudaIn)
        /\ cudaOut[p].result = "True" => cudaOut[p].ld_preload
        /\ (\A k \in 1..Len(hex(cudaIn)) :
                MatchesAt(hex(cudaIn), HexOld, k) => k % 2 = 1) =>
              cudaOut[p].data = Replace(cudaIn, BytesOld, BytesNew)

\* ------------------------------------------------------------------ C20
\* The call being made gets to the loop over sys.argv: its log check ends
\* with the verb not installed and the network probe connects.
ReachesRewrite == Called(FALSE) /\ call'.ext.connects
\* sys.argv of the launch that takes the step, before and after it.
ArgvBefore == argv[call'.launch]
ArgvAfter == argv'[call'.launch]

\* C20: a call that reaches the installation turns the launch verb 'run'
\* of sys.argv into 'waitforexitandrun' and leaves every other argument
\* as it was, paths that contain 'run' and arguments that contain
\* 'waitforexitandrun' among them; applying the rewrite again changes
\* nothing.
C20_OnlyLaunchVerb ==
    [][ ReachesRewrite =>
          /\ Len(ArgvAfter) = Len(ArgvBefore)
          /\ \A idx \in 1..Len(ArgvBefore) :
                ArgvAfter[idx] = IF ArgvBefore[idx] = S_run
                                 THEN S_waitforexitandrun
                                 ELSE ArgvBefore[idx]
          /\ RewriteArgv(ArgvAfter) = ArgvAfter ]_vars

\* What the code gives: 'run' becomes 'waitforexitandrun', an argument
\* that holds 'waitforexitandrun' or does not hold 'run' is left as it
\* was, every other argument has each 'run' in it replaced, and the
\* rewrite applied again changes nothing.
C20_EveryRunReplaced ==
    [][ ReachesRewrite =>
          /\ Len(ArgvAfter) = Len(ArgvBefore)
          /\ \A idx \in 1..Len(ArgvBefore) :
                /\ ArgvBefore[idx] = S_run =>
                      ArgvAfter[idx] = S_waitforexitandrun
                /\ (Contains(ArgvBefore[idx], S_waitforexitandrun)
                      \/ ~Contains(ArgvBefore[idx], S_run)) =>
                      ArgvAfter[idx] = ArgvBefore[idx]
                /\ (Contains(ArgvBefore[idx], S_run)
                      /\ ~Contains(ArgvBefore[idx], S_waitforexitandrun)) =>
                      /\ ArgvAfter[idx] # ArgvBefore[idx]
                      /\ Contains(ArgvAfter[idx], S_waitforexitandrun)
          /\ RewriteArgv(ArgvAfter) = ArgvAfter ]_vars

====
